---------------------------- MODULE Spec2Model ----------------------------
(***************************************************************************)
(* Model of the client-side language identification of idiom-weaver:       *)
(*   services/languageDetectionService.ts                                  *)
(*     detectLanguageHeuristic  - the pattern-scoring classifier           *)
(*     detectLanguage           - the Google Translate wrapper             *)
(*     detectLanguageHybrid     - the resolver reconciling the two         *)
(*                                                                         *)
(* A text is a JavaScript value; a string is a run of leading blanks, a    *)
(* sequence of tokens separated by one blank, and a run of trailing        *)
(* blanks.  Tokens are spelled character by character, so that the regular *)
(* expressions of the classifier are evaluated on characters.  Confidences *)
(* are exact rationals.                                                    *)
(***************************************************************************)
EXTENDS Integers, Sequences, FiniteSets, TLC

\* Bounds of the model: the number of tokens of an input text and the number
\* of blanks before and after it.
MaxWords == 2
MaxPad == 1

\* The state of one call of detectLanguageHybrid.
VARIABLES
  text,             \* the argument
  isMobile,         \* the userAgent test of the device
  pc,               \* where the call stands
  trimmedText,      \* local of the resolver
  heuristicResult,  \* local of the resolver
  timer,            \* the abort timer of detectLanguage
  requests,         \* the number of fetch requests issued
  apiResult,        \* what the awaited detectLanguage settled with
  external,         \* how the request to the external service went
  outcome,          \* "pending", "fulfilled" or "rejected"
  result            \* the value the call is fulfilled with

\* The state of several calls of detectLanguageHybrid running concurrently:
\* the locals of each call.
VARIABLES
  calls

\* The state of the input form (components/IdiomInputForm.tsx) around its
\* language detection effect.
VARIABLES
  idiomInput,         \* the value of the input field (a prop of the form)
  formDetectedLanguage,  \* detectedLanguage, useState of the form
  sourceLanguage,     \* the source language (a prop of the form)
  lastDetectedInput,  \* lastDetectedInput.current
  timeoutId,          \* timeoutId of the last run of the effect
  timers,             \* the debounce timers set and neither fired nor cleared
  detections,         \* the calls of detectLanguageAsync awaiting the resolver
  keystrokes,         \* the number of changes of the input field so far
  applied             \* the last result applied, and the field's value then

\* The state of the application (App.tsx) around handleSubmit; idiomInput and
\* sourceLanguage are declared with the form.
VARIABLES
  variant,               \* the file handleSubmit is taken from
  targetLanguages,       \* useState of App
  results,               \* useState of App
  isLoading,             \* useState of App
  isTransitioning,       \* useState of App
  error,                 \* useState of App
  lastSubmittedValues,   \* useState of App
  duplicateNotification, \* useState of App
  loadingTimers,         \* the pending timers that will set isLoading
  translations,          \* the calls of translateIdiom awaited by handleSubmit
  requestsSent,          \* the number of calls of translateIdiom so far
  submits,               \* the number of calls of handleSubmit so far
  succeeded              \* the submissions whose translation has succeeded

---------------------------------------------------------------------------
\* types.ts: the Language enumeration, in declaration order.
English == "English"
Spanish == "Spanish"
Vietnamese == "Vietnamese"
French == "French"
German == "German"
Japanese == "Japanese"
Portuguese == "Portuguese"
Dutch == "Dutch"

Language == <<English, Spanish, Vietnamese, French, German, Japanese, Portuguese, Dutch>>

Languages == {Language[i] : i \in DOMAIN Language}

\* JavaScript values that are not strings of the text model.
JsNull == "null"
JsUndefined == "undefined"
\* Object.prototype members reachable through a property lookup on a plain
\* object: the Object constructor and Object.prototype itself.
JsObjectConstructor == "function Object"
JsObjectPrototype == "Object.prototype"

\* ToBoolean on the values a language variable can hold.
Truthy(v) == v \notin {JsNull, JsUndefined}

---------------------------------------------------------------------------
\* Exact rational arithmetic for the confidence computations.
Gcd(a, b) ==
  IF a = 0 THEN b
  ELSE CHOOSE g \in 1..a :
         /\ a % g = 0 /\ b % g = 0
         /\ \A h \in (g + 1)..a : ~(a % h = 0 /\ b % h = 0)

Rat(n, d) == LET g == Gcd(n, d) IN [n |-> n \div g, d |-> d \div g]

RZero == Rat(0, 1)
ROne == Rat(1, 1)

RMul(a, b) == Rat(a.n * b.n, a.d * b.d)
RAdd(a, b) == Rat(a.n * b.d + b.n * a.d, a.d * b.d)
RLe(a, b) == a.n * b.d <= b.n * a.d
RLt(a, b) == a.n * b.d < b.n * a.d
\* Math.min
RMin(a, b) == IF RLe(a, b) THEN a ELSE b

---------------------------------------------------------------------------
\* Characters.  An ASCII character is the one-character string; any other
\* character is named by its code point, "U+XXXX".
UpperCase == <<"A","B","C","D","E","F","G","H","I","J","K","L","M",
               "N","O","P","Q","R","S","T","U","V","W","X","Y","Z">>
LowerCase == <<"a","b","c","d","e","f","g","h","i","j","k","l","m",
               "n","o","p","q","r","s","t","u","v","w","x","y","z">>
Digits == {"0","1","2","3","4","5","6","7","8","9"}

\* \w of a JavaScript regular expression without the u flag: [A-Za-z0-9_].
WordChars ==
  {UpperCase[i] : i \in DOMAIN UpperCase} \cup {LowerCase[i] : i \in DOMAIN LowerCase}
    \cup Digits \cup {"_"}

IsWordChar(c) == c \in WordChars

\* The simple lower-case mapping of one character (of the characters of the
\* lexicon, only A-Z have one).
ToLowerChar(c) ==
  IF \E i \in DOMAIN UpperCase : UpperCase[i] = c
  THEN LowerCase[CHOOSE i \in DOMAIN UpperCase : UpperCase[i] = c]
  ELSE c

\* String.prototype.toLowerCase on one character: the characters it yields.
\* U+0130 (capital I with dot above) yields two, i and the combining dot above
\* U+0307.
ToLowerChars(c) == IF c = "U+0130" THEN <<"i", "U+0307">> ELSE <<ToLowerChar(c)>>

\* String.prototype.toLowerCase on a sequence of characters.
LowerSpelling(chars) ==
  LET lower[i \in 0..Len(chars)] ==
        IF i = 0 THEN <<>> ELSE lower[i - 1] \o ToLowerChars(chars[i])
  IN lower[Len(chars)]

\* Code points of the non-ASCII characters of the lexicon.
CodePoint ==
  "U+733F" :> 29503 @@ "U+3082" :> 12418 @@ "U+6728" :> 26408 @@
  "U+304B" :> 12363 @@ "U+3089" :> 12425 @@ "U+843D" :> 33853 @@
  "U+3061" :> 12385 @@ "U+308B" :> 12427

InRange(c, lo, hi) == c \in DOMAIN CodePoint /\ CodePoint[c] \in lo..hi

---------------------------------------------------------------------------
\* The lexicon: the tokens input texts are built from, with their spelling.
\* "saru_mo_ki_kara_ochiru" is the Japanese sentence of the examples table;
\* "I_dot_y" is U+0130 followed by y, and "i_dot_y" its lower-case form.
\* languageDetectionService.ts:626-632: the words of the sentences of the
\* examples table, as written and in lower case.
ExampleSpell ==
  "early" :> <<"e", "a", "r", "l", "y">> @@
  "bird" :> <<"b", "i", "r", "d">> @@
  "catches" :> <<"c", "a", "t", "c", "h", "e", "s">> @@
  "worm" :> <<"w", "o", "r", "m">> @@
  "No" :> <<"N", "o">> @@
  "no" :> <<"n", "o">> @@
  "hay" :> <<"h", "a", "y">> @@
  "mal" :> <<"m", "a", "l">> @@
  "que" :> <<"q", "u", "e">> @@
  "por" :> <<"p", "o", "r">> @@
  "bien" :> <<"b", "i", "e", "n">> @@
  "venga" :> <<"v", "e", "n", "g", "a">> @@
  "Petit" :> <<"P", "e", "t", "i", "t">> @@
  "petit" :> <<"p", "e", "t", "i", "t">> @@
  "U+00E0" :> <<"U+00E0">> @@
  "petit," :> <<"p", "e", "t", "i", "t", ",">> @@
  "l'oiseau" :> <<"l", "'", "o", "i", "s", "e", "a", "u">> @@
  "fait" :> <<"f", "a", "i", "t">> @@
  "son" :> <<"s", "o", "n">> @@
  "nid" :> <<"n", "i", "d">> @@
  "Aller" :> <<"A", "l", "l", "e", "r">> @@
  "aller" :> <<"a", "l", "l", "e", "r">> @@
  "Anfang" :> <<"A", "n", "f", "a", "n", "g">> @@
  "anfang" :> <<"a", "n", "f", "a", "n", "g">> @@
  "ist" :> <<"i", "s", "t">> @@
  "schwer" :> <<"s", "c", "h", "w", "e", "r">> @@
  "Quem" :> <<"Q", "u", "e", "m">> @@
  "quem" :> <<"q", "u", "e", "m">> @@
  "nU+00E3o" :> <<"n", "U+00E3", "o">> @@
  "tem" :> <<"t", "e", "m">> @@
  "cU+00E3o" :> <<"c", "U+00E3", "o">> @@
  "caU+00E7a" :> <<"c", "a", "U+00E7", "a">> @@
  "com" :> <<"c", "o", "m">> @@
  "gato" :> <<"g", "a", "t", "o">> @@
  "Wie" :> <<"W", "i", "e">> @@
  "wie" :> <<"w", "i", "e">> @@
  "het" :> <<"h", "e", "t">> @@
  "laatst" :> <<"l", "a", "a", "t", "s", "t">> @@
  "lacht," :> <<"l", "a", "c", "h", "t", ",">> @@
  "lacht" :> <<"l", "a", "c", "h", "t">> @@
  "best" :> <<"b", "e", "s", "t">> @@
  "CU+00F3" :> <<"C", "U+00F3">> @@
  "cU+00F3" :> <<"c", "U+00F3">> @@
  "cU+00F4ng" :> <<"c", "U+00F4", "n", "g">> @@
  "mU+00E0i" :> <<"m", "U+00E0", "i">> @@
  "sU+1EAFt" :> <<"s", "U+1EAF", "t">> @@
  "ngU+00E0y" :> <<"n", "g", "U+00E0", "y">> @@
  "nU+00EAn" :> <<"n", "U+00EA", "n">> @@
  "kim" :> <<"k", "i", "m">>

Spell ==
  "a" :> <<"a">> @@
  "ab" :> <<"a", "b">> @@
  "the" :> <<"t", "h", "e">> @@
  "The" :> <<"T", "h", "e">> @@
  "word" :> <<"w", "o", "r", "d">> @@
  "definitely" :> <<"d", "e", "f", "i", "n", "i", "t", "e", "l", "y">> @@
  "olho" :> <<"o", "l", "h", "o">> @@
  "und" :> <<"u", "n", "d">> @@
  "I_dot_y" :> <<"U+0130", "y">> @@
  "i_dot_y" :> <<"i", "U+0307", "y">> @@
  "geschwindigkeitsbegrenzung" :>
     <<"g", "e", "s", "c", "h", "w", "i", "n", "d", "i", "g", "k", "e", "i",
       "t", "s", "b", "e", "g", "r", "e", "n", "z", "u", "n", "g">> @@
  "saru_mo_ki_kara_ochiru" :>
     <<"U+733F", "U+3082", "U+6728", "U+304B", "U+3089", "U+843D", "U+3061", "U+308B">> @@
  ExampleSpell

\* The tokens input texts are built from.
Vocab == DOMAIN Spell \ ({"i_dot_y"} \cup DOMAIN ExampleSpell)

\* The token spelled by a sequence of characters.
TokenOf(chars) == CHOOSE w \in DOMAIN Spell : Spell[w] = chars

\* A string value: pre blanks, the tokens joined by single blanks, post blanks.
StringValue(pre, words, post) ==
  [type |-> "string", pre |-> pre, words |-> words, post |-> post, num |-> 0]
\* The values that are not strings: null, undefined and the numbers 0 and 5.
OtherValue(type, num) ==
  [type |-> type, pre |-> 0, words |-> <<>>, post |-> 0, num |-> num]

WordSeqs == UNION {[1..k -> Vocab] : k \in 0..MaxWords}

Strings == {StringValue(pre, ws, post) : pre \in 0..MaxPad, ws \in WordSeqs, post \in 0..MaxPad}

NonStrings == {OtherValue("null", 0), OtherValue("undefined", 0),
               OtherValue("number", 0), OtherValue("number", 5)}

\* languageDetectionService.ts:625-634: languageDetectionDebug.examples, by the
\* language each sentence stands for.
examples ==
  English :> StringValue(0, <<"The", "early", "bird", "catches", "the", "worm">>, 0) @@
  Spanish :> StringValue(0, <<"No", "hay", "mal", "que", "por", "bien", "no", "venga">>, 0) @@
  French :> StringValue(0, <<"Petit", "U+00E0", "petit,", "l'oiseau", "fait", "son", "nid">>, 0) @@
  German :> StringValue(0, <<"Aller", "Anfang", "ist", "schwer">>, 0) @@
  Portuguese :> StringValue(0, <<"Quem", "nU+00E3o", "tem", "cU+00E3o", "caU+00E7a", "com", "gato">>, 0) @@
  Dutch :> StringValue(0, <<"Wie", "het", "laatst", "lacht,", "lacht", "het", "best">>, 0) @@
  Vietnamese :> StringValue(0, <<"CU+00F3", "cU+00F4ng", "mU+00E0i", "sU+1EAFt", "cU+00F3", "ngU+00E0y", "nU+00EAn", "kim">>, 0) @@
  Japanese :> StringValue(0, <<"saru_mo_ki_kara_ochiru">>, 0)

\* The input values of a call: the strings over the lexicon, the sentences of
\* the examples table and the values that are not strings.
Inputs == Strings \cup NonStrings \cup {examples[l] : l \in Languages}

\* The number of characters of the tokens.
SumLen(ws) ==
  LET sum[i \in 0..Len(ws)] == IF i = 0 THEN 0 ELSE sum[i - 1] + Len(Spell[ws[i]])
  IN sum[Len(ws)]

\* String.prototype.length (UTF-16 code units; every character of the lexicon
\* is one code unit).
StrLength(s) ==
  s.pre + s.post + SumLen(s.words) + (IF Len(s.words) > 1 THEN Len(s.words) - 1 ELSE 0)

\* String.prototype.trim
Trim(s) == [s EXCEPT !.pre = 0, !.post = 0]

\* String.prototype.toLowerCase
ToLowerCase(s) ==
  [s EXCEPT !.words = [i \in DOMAIN s.words |-> TokenOf(LowerSpelling(Spell[s.words[i]]))]]

\* ToBoolean of an input value (the test !text).
TruthyValue(v) ==
  CASE v.type = "string" -> StrLength(v) > 0
    [] v.type = "number" -> v.num # 0
    [] OTHER -> FALSE

---------------------------------------------------------------------------
\* The characters of a string: blanks, tokens and separators in order.
JoinWords(ws) ==
  LET join[i \in 0..Len(ws)] ==
        IF i = 0 THEN <<>>
        ELSE IF i = 1 THEN Spell[ws[1]]
        ELSE join[i - 1] \o <<" ">> \o Spell[ws[i]]
  IN join[Len(ws)]

Chars(s) == [i \in 1..s.pre |-> " "] \o JoinWords(s.words) \o [i \in 1..s.post |-> " "]

---------------------------------------------------------------------------
\* Regular expressions of the classifier.  Each pattern is matched with the
\* g flag: matches are found left to right and do not overlap.
\*   Alt(pre, post, lits)  (l1|l2|...), with \b before when pre and \b after
\*                         when post; [xy] after a literal is expanded
\*   Suffix(lits)          \b\w+l1\b|\b\w+l2\b|...
\*   ClassOf(chars)        [...] over listed characters
\*   ClassRange(lo, hi)    [\uLLLL-\uHHHH]
\*   LongWord(min)         \b\w{min,}\b
Alt(pre, post, lits) ==
  [kind |-> "alt", pre |-> pre, post |-> post, lits |-> lits, chars |-> {}, lo |-> 0, hi |-> 0]
Suffix(lits) ==
  [kind |-> "suffix", pre |-> TRUE, post |-> TRUE, lits |-> lits, chars |-> {}, lo |-> 0, hi |-> 0]
ClassOf(chars) ==
  [kind |-> "class", pre |-> FALSE, post |-> FALSE, lits |-> <<>>, chars |-> chars, lo |-> 1, hi |-> 0]
ClassRange(lo, hi) ==
  [kind |-> "class", pre |-> FALSE, post |-> FALSE, lits |-> <<>>, chars |-> {}, lo |-> lo, hi |-> hi]
LongWord(min) ==
  [kind |-> "long", pre |-> TRUE, post |-> TRUE, lits |-> <<>>, chars |-> {}, lo |-> min, hi |-> 0]

IsW(c, i) == i \in 1..Len(c) /\ IsWordChar(c[i])

\* \b between the characters at p-1 and p.
Boundary(c, p) == IsW(c, p - 1) # IsW(c, p)

LitAt(c, p, lit) ==
  /\ p + Len(lit) - 1 <= Len(c)
  /\ \A j \in 1..Len(lit) : c[p + j - 1] = lit[j]

\* The length of the run of \w characters starting at p.
RunLen(c, p) ==
  IF \A q \in p..Len(c) : IsWordChar(c[q]) THEN Len(c) - p + 1
  ELSE (CHOOSE q \in p..Len(c) :
         ~IsWordChar(c[q]) /\ \A r \in p..(q - 1) : IsWordChar(c[r])) - p

Max(S) == CHOOSE x \in S : \A y \in S : y <= x

\* The position after the match that starts at p, or 0 when none starts there.
AltEnd(c, p, pat) ==
  LET ok == {i \in DOMAIN pat.lits :
               /\ LitAt(c, p, pat.lits[i])
               /\ pat.post => Boundary(c, p + Len(pat.lits[i]))}
  IN IF pat.pre /\ ~Boundary(c, p) THEN 0
     ELSE IF ok = {} THEN 0
     ELSE p + Len(pat.lits[CHOOSE i \in ok : \A j \in ok : i <= j])

\* \w+ is greedy: the longest prefix of the run that the literal follows.
SuffixEnds(c, p, lit) ==
  {p + k + Len(lit) : k \in {k \in 1..RunLen(c, p) :
                               /\ LitAt(c, p + k, lit)
                               /\ Boundary(c, p + k + Len(lit))}}

SuffixEnd(c, p, pat) ==
  LET ok == {i \in DOMAIN pat.lits : SuffixEnds(c, p, pat.lits[i]) # {}}
  IN IF ~(Boundary(c, p) /\ IsW(c, p)) THEN 0
     ELSE IF ok = {} THEN 0
     ELSE Max(SuffixEnds(c, p, pat.lits[CHOOSE i \in ok : \A j \in ok : i <= j]))

ClassEnd(c, p, pat) ==
  IF c[p] \in pat.chars \/ InRange(c[p], pat.lo, pat.hi) THEN p + 1 ELSE 0

LongEnd(c, p, pat) ==
  IF Boundary(c, p) /\ RunLen(c, p) >= pat.lo THEN p + RunLen(c, p) ELSE 0

MatchEnd(c, p, pat) ==
  CASE pat.kind = "alt" -> AltEnd(c, p, pat)
    [] pat.kind = "suffix" -> SuffixEnd(c, p, pat)
    [] pat.kind = "class" -> ClassEnd(c, p, pat)
    [] pat.kind = "long" -> LongEnd(c, p, pat)

\* (str.match(pattern) || []).length
MatchCount(c, pat) ==
  LET countFrom[p \in 1..(Len(c) + 1)] ==
        IF p > Len(c) THEN 0
        ELSE LET e == MatchEnd(c, p, pat)
             IN IF e > 0 THEN 1 + countFrom[e] ELSE countFrom[p + 1]
  IN countFrom[1]

---------------------------------------------------------------------------
\* languageDetectionService.ts:192-214
englishPatterns ==
  <<
    \* line 194
    Alt(TRUE, TRUE, <<
       <<"t","h","e">>, <<"a","n","d">>, <<"o","r">>, <<"b","u","t">>, <<"i","n">>, <<"o","n">>,
       <<"a","t">>, <<"t","o">>, <<"f","o","r">>, <<"o","f">>, <<"w","i","t","h">>, <<"b","y">>,
       <<"a">>, <<"a","n">>, <<"i","s">>, <<"a","r","e">>, <<"w","a","s">>, <<"w","e","r","e">>,
       <<"b","e">>, <<"b","e","e","n">>, <<"h","a","v","e">>, <<"h","a","s">>, <<"h","a","d">>,
       <<"d","o">>, <<"d","o","e","s">>, <<"d","i","d">>, <<"w","i","l","l">>, <<"w","o","u","l","d">>,
       <<"c","o","u","l","d">>, <<"s","h","o","u","l","d">>, <<"c","a","n">>, <<"m","a","y">>,
       <<"m","i","g","h","t">>, <<"m","u","s","t">> >>),
    \* line 196
    Alt(TRUE, TRUE, <<
       <<"i","t","'","s">>, <<"d","o","n","'","t">>, <<"w","o","n","'","t">>, <<"c","a","n","'","t">>,
       <<"s","h","o","u","l","d","n","'","t">>, <<"w","o","u","l","d","n","'","t">>,
       <<"c","o","u","l","d","n","'","t">>, <<"i","s","n","'","t">>, <<"a","r","e","n","'","t">>,
       <<"w","a","s","n","'","t">>, <<"w","e","r","e","n","'","t">>, <<"h","a","v","e","n","'","t">>,
       <<"h","a","s","n","'","t">>, <<"h","a","d","n","'","t">>, <<"h","e","'","s">>,
       <<"s","h","e","'","s">>, <<"w","e","'","r","e">>, <<"t","h","e","y","'","r","e">>,
       <<"I","'","m">>, <<"I","'","v","e">>, <<"I","'","l","l">>, <<"I","'","d">> >>),
    \* line 198
    Alt(TRUE, TRUE, <<
       <<"w","h","e","n">>, <<"w","h","e","r","e">>, <<"w","h","a","t">>, <<"w","h","o">>,
       <<"w","h","y">>, <<"h","o","w">>, <<"w","h","i","c","h">>, <<"t","h","a","t">>,
       <<"t","h","i","s">>, <<"t","h","e","s","e">>, <<"t","h","o","s","e">> >>),
    \* line 200
    Alt(TRUE, TRUE, <<
       <<"s","p","e","a","k">>, <<"w","o","r","d">>, <<"t","i","m","e">>, <<"p","e","o","p","l","e">>,
       <<"m","a","k","e">>, <<"g","e","t">>, <<"t","a","k","e">>, <<"c","o","m","e">>, <<"g","o">>,
       <<"s","e","e">>, <<"k","n","o","w">>, <<"t","h","i","n","k">>, <<"s","a","y">>,
       <<"l","o","o","k">>, <<"u","s","e">>, <<"f","i","n","d">>, <<"g","i","v","e">>,
       <<"t","e","l","l">>, <<"w","o","r","k">>, <<"c","a","l","l">>, <<"t","r","y">>, <<"a","s","k">>,
       <<"n","e","e","d">>, <<"f","e","e","l">>, <<"b","e","c","o","m","e">>, <<"l","e","a","v","e">>,
       <<"p","u","t">>, <<"w","a","n","t">>, <<"l","i","k","e">>, <<"g","o","o","d">>, <<"b","a","d">>,
       <<"b","i","g">>, <<"s","m","a","l","l">>, <<"n","e","w">>, <<"o","l","d">>,
       <<"r","i","g","h","t">>, <<"w","r","o","n","g">> >>),
    \* line 202
    Suffix(<< <<"i","n","g">> >>),
    \* line 203
    Suffix(<< <<"e","d">> >>),
    \* line 204
    Suffix(<< <<"l","y">> >>),
    \* line 205
    Suffix(<< <<"t","i","o","n">> >>),
    \* line 207
    Alt(TRUE, TRUE, <<
       <<"a","c","t","i","o","n","s"," ","s","p","e","a","k"," ","l","o","u","d","e","r">>,
       <<"b","r","e","a","k"," ","a"," ","l","e","g">>,
       <<"p","i","e","c","e"," ","o","f"," ","c","a","k","e">>,
       <<"b","i","t","e"," ","t","h","e"," ","b","u","l","l","e","t">>,
       <<"h","i","t"," ","t","h","e"," ","n","a","i","l">>,
       <<"s","p","i","l","l"," ","t","h","e"," ","b","e","a","n","s">>,
       <<"b","r","e","a","k"," ","t","h","e"," ","i","c","e">>,
       <<"c","o","s","t"," ","a","n"," ","a","r","m">>,
       <<"k","i","l","l"," ","t","w","o"," ","b","i","r","d","s">>,
       <<"l","e","t"," ","t","h","e"," ","c","a","t"," ","o","u","t">> >>),
    \* line 209
    Alt(TRUE, TRUE, <<
       <<"t","h","a","n">>, <<"t","h","r","o","u","g","h">>, <<"t","h","o","u","g","h">>,
       <<"t","h","e","i","r">>, <<"t","h","e","r","e">>, <<"t","h","e","y","'","r","e">>,
       <<"w","h","e","r","e">>, <<"w","e","r","e">>, <<"y","o","u","r">>, <<"y","o","u","'","r","e">>,
       <<"g","o","i","n","g">>, <<"d","o","i","n","g">>, <<"b","e","i","n","g">>,
       <<"h","a","v","i","n","g">>, <<"g","e","t","t","i","n","g">>, <<"m","a","k","i","n","g">>,
       <<"t","a","k","i","n","g">>, <<"c","o","m","i","n","g">>, <<"s","e","e","i","n","g">>,
       <<"l","o","o","k","i","n","g">>, <<"t","h","i","n","k","i","n","g">>,
       <<"s","a","y","i","n","g">>, <<"w","o","r","k","i","n","g">>, <<"t","r","y","i","n","g">>,
       <<"a","s","k","i","n","g">>, <<"f","e","e","l","i","n","g">>, <<"w","a","n","t","i","n","g">>,
       <<"l","i","k","i","n","g">> >>),
    \* line 211
    Alt(TRUE, TRUE, <<
       <<"f","r","o","m">>, <<"i","n","t","o">>, <<"a","b","o","u","t">>, <<"o","v","e","r">>,
       <<"u","n","d","e","r">>, <<"u","p">>, <<"d","o","w","n">>, <<"o","u","t">>, <<"o","f","f">>,
       <<"a","w","a","y">>, <<"b","a","c","k">>, <<"h","e","r","e">>, <<"t","h","e","r","e">>,
       <<"n","o","w">>, <<"t","h","e","n">>, <<"b","e","f","o","r","e">>, <<"a","f","t","e","r">>,
       <<"d","u","r","i","n","g">>, <<"w","h","i","l","e">>, <<"s","i","n","c","e">>,
       <<"u","n","t","i","l">>, <<"b","e","c","a","u","s","e">>, <<"i","f">>,
       <<"u","n","l","e","s","s">>, <<"a","l","t","h","o","u","g","h">>,
       <<"h","o","w","e","v","e","r">>, <<"t","h","e","r","e","f","o","r","e">>, <<"t","h","u","s">>,
       <<"a","l","s","o">>, <<"o","n","l","y">>, <<"j","u","s","t">>, <<"e","v","e","n">>,
       <<"s","t","i","l","l">>, <<"y","e","t">>, <<"a","l","r","e","a","d","y">>,
       <<"a","g","a","i","n">>, <<"a","l","w","a","y","s">>, <<"n","e","v","e","r">>,
       <<"s","o","m","e","t","i","m","e","s">>, <<"o","f","t","e","n">>,
       <<"u","s","u","a","l","l","y">>, <<"m","a","y","b","e">>, <<"p","e","r","h","a","p","s">>,
       <<"p","r","o","b","a","b","l","y">>, <<"c","e","r","t","a","i","n","l","y">>,
       <<"d","e","f","i","n","i","t","e","l","y">> >>),
    \* line 213
    Alt(TRUE, TRUE, <<
       <<"I">>, <<"y","o","u">>, <<"h","e">>, <<"s","h","e">>, <<"i","t">>, <<"w","e">>,
       <<"t","h","e","y">>, <<"m","e">>, <<"h","i","m">>, <<"h","e","r">>, <<"u","s">>,
       <<"t","h","e","m">>, <<"m","y">>, <<"y","o","u","r">>, <<"h","i","s">>, <<"h","e","r">>,
       <<"i","t","s">>, <<"o","u","r">>, <<"t","h","e","i","r">>, <<"m","i","n","e">>,
       <<"y","o","u","r","s">>, <<"h","e","r","s">>, <<"o","u","r","s">>, <<"t","h","e","i","r","s">>,
       <<"m","y","s","e","l","f">>, <<"y","o","u","r","s","e","l","f">>,
       <<"h","i","m","s","e","l","f">>, <<"h","e","r","s","e","l","f">>, <<"i","t","s","e","l","f">>,
       <<"o","u","r","s","e","l","v","e","s">>, <<"y","o","u","r","s","e","l","v","e","s">>,
       <<"t","h","e","m","s","e","l","v","e","s">> >>)
  >>

\* languageDetectionService.ts:230-240
spanishPatterns ==
  <<
    \* line 231
    Alt(TRUE, TRUE, <<
       <<"e","l">>, <<"l","a">>, <<"l","o","s">>, <<"l","a","s">>, <<"u","n">>, <<"u","n","a">>,
       <<"d","e">>, <<"d","e","l">>, <<"a","l">>, <<"e","n">>, <<"c","o","n">>, <<"p","o","r">>,
       <<"p","a","r","a">>, <<"d","e","s","d","e">>, <<"h","a","s","t","a">> >>),
    \* line 232
    Alt(TRUE, TRUE, <<
       <<"q","u","e">>, <<"c","o","m","o">>, <<"c","u","a","n","d","o">>, <<"d","o","n","d","e">>,
       <<"p","o","r","q","u","e">>, <<"s","i">>, <<"p","e","r","o">>, <<"y">>, <<"o">>, <<"n","o">>,
       <<"s","U+00ED">>, <<"e","s">>, <<"s","o","n">>, <<"e","s","t","U+00E1">>,
       <<"e","s","t","U+00E1","n">>, <<"s","e","r">>, <<"e","s","t","a","r">>, <<"t","e","n","e","r">>,
       <<"h","a","c","e","r">> >>),
    \* line 233
    Alt(TRUE, TRUE, <<
       <<"m","u","y">>, <<"m","U+00E1","s">>, <<"m","e","n","o","s">>, <<"t","o","d","o">>,
       <<"t","o","d","o","s">>, <<"t","o","d","a">>, <<"t","o","d","a","s">>, <<"e","s","t","e">>,
       <<"e","s","t","a">>, <<"e","s","t","o","s">>, <<"e","s","t","a","s">> >>),
    \* line 234
    Alt(TRUE, TRUE, <<
       <<"a","g","u","a">>, <<"c","a","s","a">>, <<"t","i","e","m","p","o">>, <<"a","U+00F1","o">>,
       <<"d","U+00ED","a">>, <<"p","e","r","s","o","n","a">>, <<"m","u","n","d","o">>,
       <<"v","i","d","a">>, <<"h","o","m","b","r","e">>, <<"m","u","j","e","r">>,
       <<"p","a","U+00ED","s">>, <<"c","i","u","d","a","d">>, <<"t","r","a","b","a","j","o">>,
       <<"m","a","n","o">>, <<"o","j","o">>, <<"c","a","b","e","z","a">> >>),
    \* line 235
    Alt(FALSE, FALSE, << <<"U+00F1">> >>),
    \* line 236
    Suffix(<< <<"c","i","U+00F3","n">> >>),
    \* line 237
    Suffix(<< <<"a","n","d","o">> >>),
    \* line 238
    Suffix(<< <<"i","e","n","d","o">> >>),
    \* line 239
    Alt(FALSE, FALSE, << <<"r","r">> >>)
  >>

\* languageDetectionService.ts:248-258
frenchPatterns ==
  <<
    \* line 249
    Alt(TRUE, TRUE, <<
       <<"l","e">>, <<"l","a">>, <<"l","e","s">>, <<"u","n">>, <<"u","n","e">>, <<"d","e">>,
       <<"d","u">>, <<"d","e","s">>, <<"a","u">>, <<"a","u","x">>, <<"e","n">>, <<"d","a","n","s">>,
       <<"a","v","e","c">>, <<"p","o","u","r">>, <<"s","u","r">>, <<"s","o","u","s">>, <<"p","a","r">> >>),
    \* line 250
    Alt(TRUE, TRUE, <<
       <<"q","u","e">>, <<"c","o","m","m","e">>, <<"q","u","a","n","d">>, <<"o","U+00F9">>,
       <<"p","a","r","c","e">>, <<"s","i">>, <<"m","a","i","s">>, <<"e","t">>, <<"o","u">>,
       <<"n","o","n">>, <<"o","u","i">>, <<"e","s","t">>, <<"s","o","n","t">>,
       <<"U+00EA","t","r","e">>, <<"a","v","o","i","r">>, <<"f","a","i","r","e">>,
       <<"a","l","l","e","r">> >>),
    \* line 251
    Alt(TRUE, TRUE, <<
       <<"t","r","U+00E8","s">>, <<"p","l","u","s">>, <<"m","o","i","n","s">>, <<"t","o","u","t">>,
       <<"t","o","u","s">>, <<"t","o","u","t","e">>, <<"t","o","u","t","e","s">>, <<"c","e">>,
       <<"c","e","t","t","e">>, <<"c","e","s">> >>),
    \* line 252
    Alt(TRUE, TRUE, <<
       <<"e","a","u">>, <<"t","e","m","p","s">>, <<"a","n","n","U+00E9","e">>, <<"j","o","u","r">>,
       <<"p","e","r","s","o","n","n","e">>, <<"m","o","n","d","e">>, <<"v","i","e">>,
       <<"h","o","m","m","e">>, <<"f","e","m","m","e">>, <<"p","a","y","s">>, <<"v","i","l","l","e">>,
       <<"t","r","a","v","a","i","l">>, <<"m","a","i","n">>, <<"U+0153","i","l">>,
       <<"t","U+00EA","t","e">> >>),
    \* line 253
    ClassOf({"U+00E0", "U+00E2", "U+00E4", "U+00E9", "U+00E8", "U+00EA", "U+00EB", "U+00EF", "U+00EE", "U+00F4",
       "U+00F6", "U+00F9", "U+00FB", "U+00FC", "U+00FF", "U+00E7"}),
    \* line 254
    Suffix(<< <<"t","i","o","n">> >>),
    \* line 255
    Suffix(<< <<"m","e","n","t">> >>),
    \* line 256
    Alt(FALSE, FALSE, << <<"q","u","'">> >>),
    \* line 257
    Alt(FALSE, FALSE, << <<"c","'","e","s","t">>, <<"s","'","e","s","t">>, <<"n","'","e","s","t">>, <<"d","'","u","n">>,
       <<"d","'","u","n","e">> >>)
  >>

\* languageDetectionService.ts:266-278
germanPatterns ==
  <<
    \* line 267
    Alt(TRUE, TRUE, <<
       <<"d","e","r">>, <<"d","i","e">>, <<"d","a","s">>, <<"d","e","n">>, <<"d","e","m">>,
       <<"d","e","s">>, <<"e","i","n">>, <<"e","i","n","e">>, <<"e","i","n","e","n">>,
       <<"e","i","n","e","m">>, <<"e","i","n","e","s">>, <<"e","i","n","e","r">> >>),
    \* line 268
    Alt(TRUE, TRUE, <<
       <<"u","n","d">>, <<"o","d","e","r">>, <<"a","b","e","r">>, <<"w","e","n","n">>,
       <<"w","e","i","l">>, <<"d","a","s","s">>, <<"m","i","t">>, <<"f","U+00FC","r">>,
       <<"v","o","n">>, <<"z","u">>, <<"b","e","i">>, <<"n","a","c","h">>, <<"U+00FC","b","e","r">>,
       <<"u","n","t","e","r">>, <<"z","w","i","s","c","h","e","n">> >>),
    \* line 269
    Alt(TRUE, TRUE, <<
       <<"i","s","t">>, <<"s","i","n","d">>, <<"w","a","r">>, <<"w","a","r","e","n">>,
       <<"s","e","i","n">>, <<"h","a","b","e","n">>, <<"h","a","t">>, <<"h","a","t","t","e">>,
       <<"h","a","t","t","e","n">>, <<"w","e","r","d","e","n">>, <<"w","i","r","d">>,
       <<"w","u","r","d","e">>, <<"w","u","r","d","e","n">> >>),
    \* line 270
    Alt(TRUE, TRUE, <<
       <<"w","a","s","s","e","r">>, <<"z","e","i","t">>, <<"j","a","h","r">>, <<"t","a","g">>,
       <<"m","e","n","s","c","h">>, <<"w","e","l","t">>, <<"l","e","b","e","n">>, <<"m","a","n","n">>,
       <<"f","r","a","u">>, <<"l","a","n","d">>, <<"s","t","a","d","t">>, <<"a","r","b","e","i","t">>,
       <<"h","a","n","d">>, <<"a","u","g","e">>, <<"k","o","p","f">> >>),
    \* line 271
    ClassOf({"U+00E4", "U+00F6", "U+00FC", "U+00DF"}),
    \* line 272
    Suffix(<< <<"u","n","g">> >>),
    \* line 273
    Suffix(<< <<"h","e","i","t">> >>),
    \* line 274
    Suffix(<< <<"k","e","i","t">> >>),
    \* line 275
    Suffix(<< <<"l","i","c","h">> >>),
    \* line 276
    LongWord(12),
    \* line 277
    Alt(FALSE, FALSE, << <<"s","c","h">> >>)
  >>

\* languageDetectionService.ts:286-303
portuguesePatterns ==
  <<
    \* line 288
    Alt(TRUE, TRUE, <<
       <<"o">>, <<"a">>, <<"o","s">>, <<"a","s">>, <<"u","m">>, <<"u","m","a">>, <<"d","e">>,
       <<"d","o">>, <<"d","a">>, <<"d","o","s">>, <<"d","a","s">>, <<"e","m">>, <<"n","o">>,
       <<"n","a">>, <<"n","o","s">>, <<"n","a","s">>, <<"c","o","m">>, <<"p","o","r">>,
       <<"p","a","r","a">>, <<"e","n","t","r","e">>, <<"s","o","b","r","e">>, <<"a","t","U+00E9">> >>),
    \* line 290
    Alt(TRUE, TRUE, <<
       <<"q","u","e">>, <<"c","o","m","o">>, <<"q","u","a","n","d","o">>, <<"o","n","d","e">>,
       <<"p","o","r","q","u","e">>, <<"s","e">>, <<"m","a","s">>, <<"e">>, <<"o","u">>,
       <<"n","U+00E3","o">>, <<"s","i","m">>, <<"U+00E9">>, <<"s","U+00E3","o">>,
       <<"e","s","t","U+00E1">>, <<"e","s","t","U+00E3","o">>, <<"s","e","r">>,
       <<"e","s","t","a","r">>, <<"t","e","r">>, <<"f","a","z","e","r">>, <<"m","u","i","t","o">>,
       <<"m","a","i","s">>, <<"m","e","n","o","s">>, <<"t","o","d","o">>, <<"t","o","d","o","s">>,
       <<"t","o","d","a">>, <<"t","o","d","a","s">>, <<"e","s","t","e">>, <<"e","s","t","a">>,
       <<"e","s","t","e","s">>, <<"e","s","t","a","s">> >>),
    \* line 292
    Alt(TRUE, TRUE, <<
       <<"U+00E1","g","u","a">>, <<"c","a","s","a">>, <<"t","e","m","p","o">>, <<"a","n","o">>,
       <<"d","i","a">>, <<"p","e","s","s","o","a">>, <<"m","u","n","d","o">>, <<"v","i","d","a">>,
       <<"h","o","m","e","m">>, <<"m","u","l","h","e","r">>, <<"p","a","U+00ED","s">>,
       <<"c","i","d","a","d","e">>, <<"t","r","a","b","a","l","h","o">>, <<"m","U+00E3","o">>,
       <<"o","l","h","o">>, <<"c","a","b","e","U+00E7","a">>,
       <<"c","o","r","a","U+00E7","U+00E3","o">>, <<"a","m","o","r">>,
       <<"d","i","n","h","e","i","r","o">>, <<"p","o","r","t","u","g","u","U+00EA","s">>,
       <<"b","r","a","s","i","l">> >>),
    \* line 294
    Alt(TRUE, TRUE, << <<"U+00E7","U+00E3","o">> >>),
    \* line 295
    Alt(TRUE, TRUE, << <<"n","h","a">>, <<"n","h","e">>, <<"n","h","i">>, <<"n","h","o">>, <<"n","h","u">> >>),
    \* line 296
    ClassOf({"U+00E3", "U+00F5"}),
    \* line 297
    Suffix(<< <<"m","e","n","t","e">> >>),
    \* line 298
    Alt(FALSE, FALSE, << <<"l","h","a">>, <<"l","h","e">>, <<"l","h","i">>, <<"l","h","o">>, <<"l","h","u">> >>),
    \* line 299
    Suffix(<< <<"i","n","h","a">>, <<"i","n","h","o">> >>),
    \* line 301
    Suffix(<< <<"a","n","d","o">>, <<"e","n","d","o">>, <<"i","n","d","o">> >>),
    \* line 302
    Alt(TRUE, TRUE, << <<"e","s","t","U+00E1">>, <<"e","s","t","U+00E3","o">>, <<"e","s","t","a","v","a","m">> >>)
  >>

\* languageDetectionService.ts:311-322
dutchPatterns ==
  <<
    \* line 312
    Alt(TRUE, TRUE, <<
       <<"d","e">>, <<"h","e","t">>, <<"e","e","n">>, <<"v","a","n">>, <<"e","n">>, <<"i","n">>,
       <<"o","p">>, <<"m","e","t">>, <<"v","o","o","r">>, <<"d","o","o","r">>, <<"n","a","a","r">>,
       <<"u","i","t">>, <<"o","v","e","r">>, <<"o","n","d","e","r">>, <<"t","u","s","s","e","n">> >>),
    \* line 313
    Alt(TRUE, TRUE, <<
       <<"d","a","t">>, <<"d","i","e">>, <<"d","i","t">>, <<"d","e","z","e">>, <<"z","o">>,
       <<"a","l","s">>, <<"w","a","n","t">>, <<"m","a","a","r">>, <<"o","f">>, <<"n","i","e","t">>,
       <<"j","a">>, <<"i","s">>, <<"z","i","j","n">>, <<"w","a","s">>, <<"w","a","r","e","n">>,
       <<"h","e","b","b","e","n">>, <<"h","e","e","f","t">>, <<"h","a","d">>,
       <<"h","a","d","d","e","n">> >>),
    \* line 314
    Alt(TRUE, TRUE, <<
       <<"z","e","e","r">>, <<"m","e","e","r">>, <<"m","i","n","d","e","r">>, <<"a","l","l","e">>,
       <<"a","l","l","e","s">>, <<"d","i","t">>, <<"d","e","z","e">>, <<"d","i","e">>, <<"d","a","t">> >>),
    \* line 315
    Alt(TRUE, TRUE, <<
       <<"w","a","t","e","r">>, <<"t","i","j","d">>, <<"j","a","a","r">>, <<"d","a","g">>,
       <<"m","e","n","s">>, <<"w","e","r","e","l","d">>, <<"l","e","v","e","n">>, <<"m","a","n">>,
       <<"v","r","o","u","w">>, <<"l","a","n","d">>, <<"s","t","a","d">>, <<"w","e","r","k">>,
       <<"h","a","n","d">>, <<"o","o","g">>, <<"h","o","o","f","d">> >>),
    \* line 316
    Alt(FALSE, FALSE, << <<"i","j">> >>),
    \* line 317
    Suffix(<< <<"h","e","i","d">> >>),
    \* line 318
    Suffix(<< <<"l","i","j","k">> >>),
    \* line 319
    Alt(FALSE, TRUE, << <<"s","c","h">> >>),
    \* line 320
    Alt(FALSE, FALSE, << <<"o","e">> >>),
    \* line 321
    Alt(FALSE, FALSE, << <<"u","i">> >>)
  >>

\* languageDetectionService.ts:330-340
vietnamesePatterns ==
  <<
    \* line 331
    ClassOf({"U+00E0", "U+00E1", "U+1EA1", "U+1EA3", "U+00E3", "U+00E2", "U+1EA7", "U+1EA5", "U+1EAD", "U+1EA9",
       "U+1EAB", "U+0103", "U+1EB1", "U+1EAF", "U+1EB7", "U+1EB3", "U+1EB5", "U+00E8", "U+00E9", "U+1EB9",
       "U+1EBB", "U+1EBD", "U+00EA", "U+1EC1", "U+1EBF", "U+1EC7", "U+1EC3", "U+1EC5", "U+00EC", "U+00ED",
       "U+1ECB", "U+1EC9", "U+0129", "U+00F2", "U+00F3", "U+1ECD", "U+1ECF", "U+00F5", "U+00F4", "U+1ED3",
       "U+1ED1", "U+1ED9", "U+1ED5", "U+1ED7", "U+01A1", "U+1EDD", "U+1EDB", "U+1EE3", "U+1EDF", "U+1EE1",
       "U+00F9", "U+00FA", "U+1EE5", "U+1EE7", "U+0169", "U+01B0", "U+1EEB", "U+1EE9", "U+1EF1", "U+1EED",
       "U+1EEF", "U+1EF3", "U+00FD", "U+1EF5", "U+1EF7", "U+1EF9", "U+0111"}),
    \* line 332
    Alt(TRUE, TRUE, <<
       <<"v","U+00E0">>, <<"c","U+1EE7","a">>, <<"t","r","o","n","g">>, <<"v","U+1EDB","i">>,
       <<"U+0111","U+1EC3">>, <<"t","U+1EEB">>, <<"U+0111","U+1EBF","n">>, <<"v","U+1EC1">>,
       <<"c","h","o">>, <<"t","h","e","o">>, <<"n","h","U+01B0">>, <<"k","h","i">>, <<"m","U+00E0">>,
       <<"c","U+00F3">>, <<"l","U+00E0">>, <<"U+0111","U+01B0","U+1EE3","c">>, <<"s","U+1EBD">>,
       <<"U+0111","U+00E3">>, <<"U+0111","a","n","g">>, <<"k","h","U+00F4","n","g">>,
       <<"r","U+1EA5","t">> >>),
    \* line 333
    Alt(TRUE, TRUE, <<
       <<"n","U+00E0","y">>, <<"U+0111","U+00F3">>, <<"n","h","U+1EEF","n","g">>, <<"c","U+00E1","c">>,
       <<"m","U+1ED9","t">>, <<"h","a","i">>, <<"b","a">>, <<"b","U+1ED1","n">>, <<"n","U+0103","m">>,
       <<"s","U+00E1","u">>, <<"b","U+1EA3","y">>, <<"t","U+00E1","m">>, <<"c","h","U+00ED","n">>,
       <<"m","U+01B0","U+1EDD","i">> >>),
    \* line 334
    Alt(TRUE, TRUE, <<
       <<"n","U+01B0","U+1EDB","c">>, <<"t","h","U+1EDD","i">>, <<"n","U+0103","m">>,
       <<"n","g","U+00E0","y">>, <<"n","g","U+01B0","U+1EDD","i">>, <<"t","h","U+1EBF">>,
       <<"U+0111","U+1EDD","i">>, <<"n","a","m">>, <<"n","U+1EEF">>, <<"n","U+01B0","U+1EDB","c">>,
       <<"t","h","U+00E0","n","h">>, <<"c","U+00F4","n","g">>, <<"t","a","y">>, <<"m","U+1EAF","t">>,
       <<"U+0111","U+1EA7","u">> >>),
    \* line 335
    Alt(TRUE, TRUE, << <<"n","g">> >>),
    \* line 336
    Alt(TRUE, TRUE, << <<"n","h">> >>),
    \* line 337
    Alt(TRUE, TRUE, << <<"t","r">> >>),
    \* line 338
    Alt(TRUE, TRUE, << <<"k","h">> >>),
    \* line 339
    Alt(TRUE, TRUE, << <<"t","h">> >>)
  >>

\* languageDetectionService.ts:348-353
japanesePatterns ==
  <<
    \* line 349
    ClassRange(12352, 12447),
    \* line 350
    ClassRange(12448, 12543),
    \* line 351
    ClassRange(19968, 40879),
    \* line 352
    ClassOf({"U+306F", "U+304C", "U+3092", "U+306B", "U+3067", "U+3068", "U+306E", "U+3082", "U+304B"})
  >>

---------------------------------------------------------------------------
\* languageDetectionService.ts:216-227: the weight of the English pattern at
\* (zero-based) index.
englishWeight(index) ==
  IF index = 11 THEN 3
  ELSE IF index = 6 THEN 5
  ELSE IF index = 2 THEN 3
  ELSE IF index = 1 THEN 4
  ELSE 2

\* The sum of f[1..n].
SumOver(f, n) ==
  LET sum[i \in 0..n] == IF i = 0 THEN 0 ELSE sum[i - 1] + f[i]
  IN sum[n]

\* patterns.forEach(p => { m = lowerText.match(p); if (m) score += m.length * w })
\* with weights[i] the weight w of the i-th pattern.
PatternScore(c, patterns, weights) ==
  SumOver([i \in DOMAIN patterns |-> MatchCount(c, patterns[i]) * weights[i]],
          Len(patterns))

\* The weights of the English patterns, by (one-based) position.
englishWeights == [i \in DOMAIN englishPatterns |-> englishWeight(i - 1)]

\* The same weight for every pattern of a list.
Uniform(patterns, weight) == [i \in DOMAIN patterns |-> weight]

\* languageDetectionService.ts:180-358: the score of every language for the
\* lower-cased, trimmed text.
Scores(lowerText) ==
  LET c == Chars(lowerText)
  IN [l \in Languages |->
       CASE l = English -> PatternScore(c, englishPatterns, englishWeights)
         [] l = Spanish -> PatternScore(c, spanishPatterns, Uniform(spanishPatterns, 2))
         [] l = French -> PatternScore(c, frenchPatterns, Uniform(frenchPatterns, 2))
         [] l = German -> PatternScore(c, germanPatterns, Uniform(germanPatterns, 2))
         [] l = Portuguese ->
              PatternScore(c, portuguesePatterns, Uniform(portuguesePatterns, 2))
         [] l = Dutch -> PatternScore(c, dutchPatterns, Uniform(dutchPatterns, 2))
         [] l = Vietnamese ->
              PatternScore(c, vietnamesePatterns, Uniform(vietnamesePatterns, 3))
         [] l = Japanese -> PatternScore(c, japanesePatterns, Uniform(japanesePatterns, 4))]

\* A classification result.
Classification(language, confidence) == [language |-> language, confidence |-> confidence]

\* Math.min(confidence * factor, 1) when the boost applies.
Boost(applies, confidence, factor) ==
  IF applies THEN RMin(RMul(confidence, factor), ROne) ELSE confidence

\* The penalty applied to the texts that are not short instead.
PenaltyInverted(applies, confidence, factor) ==
  IF applies THEN confidence ELSE RMul(confidence, factor)

\* confidence *= factor when the penalty applies.
Penalty(applies, confidence, factor) ==
  IF applies THEN RMul(confidence, factor) ELSE confidence

\* The tie test that never finds a tie, so that the first of the tied languages
\* is returned.
IsTieNever(topLanguages) == FALSE

\* languageDetectionService.ts:378: topLanguages.length > 1
IsTie(topLanguages) == Len(topLanguages) > 1

\* The minimum test that also rejects a maximum score of exactly 2.
IsBelowMinimumInclusive(maxScore) == maxScore <= 2

\* languageDetectionService.ts:368: maxScore < 2
IsBelowMinimum(maxScore) == maxScore < 2

\* languageDetectionService.ts:361-403: the confidence after the boosts, before
\* the penalties for short texts.
BoostedConfidence(scores, textLength) ==
  LET maxScore == Max({scores[l] : l \in Languages})
      baseConfidence == RMin(Rat(maxScore * 10, textLength), ROne)
      topLanguages == SelectSeq(Language, LAMBDA l : scores[l] = maxScore)
      detectedLanguage == topLanguages[1]
      secondHighestScore == Max({scores[l] : l \in Languages \ {English}})
      c1 == Boost(maxScore >= 10, baseConfidence, Rat(15, 10))
      c2 == Boost(maxScore >= 20, c1, Rat(18, 10))
      c3 == Boost(maxScore >= 30, c2, Rat(20, 10))
  IN Boost(/\ detectedLanguage = English
           /\ maxScore > 15
           /\ maxScore > secondHighestScore * 2, c3, Rat(13, 10))

\* languageDetectionService.ts:360-421: the result for a score vector and the
\* length of the trimmed text.
Classify(scores, textLength) ==
  LET maxScore == Max({scores[l] : l \in Languages})
      topLanguages == SelectSeq(Language, LAMBDA l : scores[l] = maxScore)
      detectedLanguage == topLanguages[1]
      c4 == BoostedConfidence(scores, textLength)
      c5 == Penalty(textLength < 20, c4, Rat(7, 10))
      c6 == Penalty(textLength < 10, c5, Rat(5, 10))
  IN IF IsBelowMinimum(maxScore) THEN Classification(JsNull, RZero)
     ELSE IF IsTie(topLanguages) THEN Classification(JsNull, RZero)
     ELSE Classification(detectedLanguage, c6)

\* languageDetectionService.ts:169-422
detectLanguageHeuristic(str) ==
  LET lowerText == Trim(ToLowerCase(str))
  IN IF StrLength(lowerText) < 3 THEN Classification(JsNull, RZero)
     ELSE Classify(Scores(lowerText), StrLength(Trim(str)))

---------------------------------------------------------------------------
\* The classifier is only ever called by the resolver and by detectLanguage
\* on the trimmed text; its results for the trimmed strings are computed once.
TrimmedStrings == {StringValue(0, ws, 0) : ws \in WordSeqs}

\* The strings whose classification is computed once.
Precomputed == TrimmedStrings \cup {examples[l] : l \in Languages}

HeuristicResults == [s \in Precomputed |-> detectLanguageHeuristic(s)]

\* The score vectors of the trimmed strings, computed once.
ScoreResults == [s \in Precomputed |-> Scores(Trim(ToLowerCase(s)))]

\* The score vector the classifier computes for s.
ScoresOf(s) ==
  IF s \in Precomputed THEN ScoreResults[s] ELSE Scores(Trim(ToLowerCase(s)))

\* A call detectLanguageHeuristic(s).
HeuristicOf(s) ==
  IF s \in Precomputed THEN HeuristicResults[s] ELSE detectLanguageHeuristic(s)

---------------------------------------------------------------------------
\* JSON values of a response body: null, a string (its characters) or a number.
JNull == [t |-> "null", s |-> <<>>, n |-> 0]
JString(chars) == [t |-> "string", s |-> chars, n |-> 0]
JNumber(n) == [t |-> "number", s |-> <<>>, n |-> n]

\* ToBoolean of a JSON value.
JTruthy(v) ==
  CASE v.t = "string" -> Len(v.s) > 0
    [] v.t = "number" -> v.n # 0
    [] OTHER -> FALSE

\* The language codes the external service is taken to answer with: codes of
\* the map in either case, a code the map lacks, and names of members that a
\* plain object inherits from Object.prototype.
ExternalCodes ==
  { <<"e","n">>, <<"E","N">>, <<"p","t">>, <<"p","o","r">>, <<"d","e">>, <<"j","a">>,
    <<"z","h">>,
    <<"c","o","n","s","t","r","u","c","t","o","r">>,
    <<"_","_","p","r","o","t","o","_","_">>,
    <<"t","o","S","t","r","i","n","g">> }

\* The values found in a response at data[2], data[0][0][2] and data[8][0][0].
JsonValues == {JNull, JString(<<>>), JNumber(5)} \cup {JString(code) : code \in ExternalCodes}

\* A parsed response body: whether it is an array and, when it is, the values
\* at the three places detectLanguage reads (JNull when the path to the place
\* does not exist or holds a falsy value).
Body(isArray, d2, d002, d800) == [isArray |-> isArray, d2 |-> d2, d002 |-> d002, d800 |-> d800]

JsonBodies ==
  {Body(FALSE, JNull, JNull, JNull)}
    \cup {Body(TRUE, v, JNull, JNull) : v \in JsonValues}
    \cup {Body(TRUE, JNull, v, JNull) : v \in JsonValues}
    \cup {Body(TRUE, JNull, JNull, v) : v \in JsonValues}
    \cup {Body(TRUE, JString(<<"e","n">>), JString(<<"p","t">>), JString(<<"d","e">>))}

\* languageDetectionService.ts:65-93: the extracted code, JNull when none.
ExtractCode(data) ==
  IF ~data.isArray THEN JNull
  ELSE IF JTruthy(data.d2) /\ data.d2.t = "string" THEN data.d2
  ELSE IF JTruthy(data.d002) THEN data.d002
  ELSE IF JTruthy(data.d800) THEN data.d800
  ELSE JNull

\* languageDetectionService.ts:105-126: the own properties of languageCodeMap.
languageCodeMap ==
  <<"e","n">> :> English @@ <<"e","s">> :> Spanish @@ <<"v","i">> :> Vietnamese @@
  <<"f","r">> :> French @@ <<"d","e">> :> German @@ <<"j","a">> :> Japanese @@
  <<"p","t">> :> Portuguese @@ <<"n","l">> :> Dutch @@
  <<"e","n","g">> :> English @@ <<"s","p","a">> :> Spanish @@
  <<"v","i","e">> :> Vietnamese @@ <<"f","r","a">> :> French @@
  <<"f","r","e">> :> French @@ <<"g","e","r">> :> German @@ <<"d","e","u">> :> German @@
  <<"j","p","n">> :> Japanese @@ <<"p","o","r">> :> Portuguese @@
  <<"d","u","t">> :> Dutch @@ <<"n","l","d">> :> Dutch

\* Members every object literal inherits from Object.prototype (the ones with
\* a name of at most eleven characters that matter to a lower-cased key, and
\* two with upper-case letters).
ObjectPrototype ==
  <<"c","o","n","s","t","r","u","c","t","o","r">> :> JsObjectConstructor @@
  <<"_","_","p","r","o","t","o","_","_">> :> JsObjectPrototype @@
  <<"t","o","S","t","r","i","n","g">> :> "function toString" @@
  <<"v","a","l","u","e","O","f">> :> "function valueOf"

\* obj[key] on an object literal with the given own properties.
GetProperty(own, key) ==
  IF key \in DOMAIN own THEN own[key]
  ELSE IF key \in DOMAIN ObjectPrototype THEN ObjectPrototype[key]
  ELSE JsUndefined

\* String.prototype.toLowerCase on the characters of a code.
LowerChars(chars) == LowerSpelling(chars)

\* The settlement of an awaited call: a value, or a thrown error.
Resolved(v) == [threw |-> FALSE, value |-> v]
Thrown == [threw |-> TRUE, value |-> JsUndefined]

\* languageDetectionService.ts:139-165: the catch block of detectLanguage.
DetectCatch(t) == Resolved(HeuristicOf(t).language)

\* languageDetectionService.ts:128: languageCodeMap[code.toLowerCase()];
\* toLowerCase is not a function of a number, and the call throws.
MapCode(code) ==
  IF code.t # "string" THEN Thrown
  ELSE Resolved(GetProperty(languageCodeMap, LowerChars(code.s)))

\* languageDetectionService.ts:52-138: what detectLanguage resolves to once the
\* body of an OK response has been parsed.
DetectFromData(t, data) ==
  LET code == ExtractCode(data)
      mapped == MapCode(code)
  IN IF ~JTruthy(code) THEN Resolved(HeuristicOf(t).language)
     ELSE IF mapped.threw THEN DetectCatch(t)
     ELSE IF Truthy(mapped.value) THEN Resolved(mapped.value)
     ELSE Resolved(HeuristicOf(t).language)

\* How the request went when the body of an OK response has been parsed: no
\* code extracted, toLowerCase threw, the map has no such member, or it has.
ExternalOutcome(data) ==
  LET code == ExtractCode(data)
  IN IF ~JTruthy(code) THEN "no-code"
     ELSE IF MapCode(code).threw THEN "threw"
     ELSE IF Truthy(MapCode(code).value) THEN "mapped"
     ELSE "unsupported"

---------------------------------------------------------------------------
\* A resolution result.
Resolution(language, confidence, method) ==
  [language |-> language, confidence |-> confidence, method |-> method]

\* The validity test without its typeof half.
IsInvalidInputFalsyOnly(v) == ~TruthyValue(v)

\* languageDetectionService.ts:433: !text || typeof text !== "string"
IsInvalidInput(v) == ~TruthyValue(v) \/ v.type # "string"

\* The length test with the bound 1, which lets one-character texts through.
IsTooShortEmptyOnly(t) == StrLength(t) < 1

\* languageDetectionService.ts:442: trimmedText.length < 2
IsTooShort(t) == StrLength(t) < 2

\* The short-text test of detectLanguage with the bound 2 of the resolver.
IsShortForApiTwo(t) == StrLength(Trim(t)) < 2

\* languageDetectionService.ts:11: text.trim().length < 4
IsShortForApi(t) == StrLength(Trim(t)) < 4

\* The mobile boost without Math.min.
MobileBoostUnclamped(h, mobile) ==
  IF mobile /\ RLt(Rat(5, 10), h.confidence)
  THEN [h EXCEPT !.confidence = RAdd(h.confidence, Rat(2, 10))]
  ELSE h

\* languageDetectionService.ts:460-463: the boost of the classifier's
\* confidence on a mobile device.
MobileBoost(h, mobile) ==
  IF mobile /\ RLt(Rat(5, 10), h.confidence)
  THEN [h EXCEPT !.confidence = RMin(RAdd(h.confidence, Rat(2, 10)), ROne)]
  ELSE h

\* languageDetectionService.ts:479-483
IsVeryConfidentAndDistinctive(h) ==
  /\ RLt(Rat(95, 100), h.confidence)
  /\ h.language \in {Japanese, Vietnamese, German, Dutch}

\* languageDetectionService.ts:549-552: the strong English indicators, matched
\* with the i flag (the literals are lower-case, so the text is lower-cased).
strongEnglishIndicators ==
  Alt(TRUE, TRUE, <<
     <<"t","h","e">>, <<"a","n","d">>, <<"t","h","i","s">>, <<"t","h","a","t">>,
     <<"i","t","'","s">>, <<"d","o","n","'","t">>, <<"c","a","n","'","t">>,
     <<"g","o","i","n","g">>, <<"d","o","i","n","g">>, <<"b","e","i","n","g">>,
     <<"h","a","v","e">>, <<"h","a","s">>, <<"w","i","l","l">>, <<"w","o","u","l","d">>,
     <<"c","o","u","l","d">>, <<"s","h","o","u","l","d">> >>)

HasStrongEnglish(t) == MatchCount(Chars(ToLowerCase(t)), strongEnglishIndicators) > 0

\* The disagreement resolved in favour of the classifier.
DisagreementPrefersHeuristic(a, h, t) ==
  Resolution(h.language, Rat(6, 10), "api-preferred")

\* The disagreement between English and Portuguese resolved in favour of
\* English without the test for strong English indicators.
DisagreementAlwaysEnglish(a, h, t) ==
  IF \/ a = Portuguese /\ h.language = English
     \/ a = English /\ h.language = Portuguese
  THEN Resolution(English, Rat(8, 10), "english-portuguese-resolution")
  ELSE Resolution(a, Rat(6, 10), "api-preferred")

\* languageDetectionService.ts:533-568: both methods succeeded and disagree.
Disagreement(a, h, t) ==
  IF /\ \/ a = Portuguese /\ h.language = English
        \/ a = English /\ h.language = Portuguese
     /\ HasStrongEnglish(t)
  THEN Resolution(English, Rat(8, 10), "english-portuguese-resolution")
  ELSE Resolution(a, Rat(6, 10), "api-preferred")

\* languageDetectionService.ts:575-593: the catch block of the resolver.
HybridCatch(h) ==
  IF ~Truthy(h.language)
  THEN Resolution(JsNull, RZero, "all-methods-failed")
  ELSE Resolution(h.language, RMul(h.confidence, Rat(7, 10)), "heuristic-emergency")

\* The final return with the confidence 0.8 whichever method is left.
FallthroughFixedConfidence(a, h) ==
  Resolution(IF Truthy(a) THEN a ELSE h.language,
             Rat(8, 10),
             IF Truthy(a) THEN "api-fallback" ELSE "heuristic-fallback")

\* languageDetectionService.ts:570-574: the final return of the try block.
Fallthrough(a, h) ==
  Resolution(IF Truthy(a) THEN a ELSE h.language,
             IF Truthy(a) THEN Rat(8, 10) ELSE h.confidence,
             IF Truthy(a) THEN "api-fallback" ELSE "heuristic-fallback")

\* The agreement result without the boost.
AgreementUnboosted(a, h) == Resolution(a, h.confidence, "hybrid-agreement")

\* languageDetectionService.ts:499-511: both methods agree.
Agreement(a, h) ==
  Resolution(a, RMin(RAdd(h.confidence, Rat(3, 10)), ROne), "hybrid-agreement")

\* The result of the external service alone with the confidence of a
\* disagreement.
ApiOnlyReduced(a) == Resolution(a, Rat(6, 10), "api-only")

\* languageDetectionService.ts:513-521: the external service succeeded and the
\* classifier did not.
ApiOnly(a) == Resolution(a, Rat(8, 10), "api-only")

\* languageDetectionService.ts:495-593: the result of the resolver, given what
\* the awaited detectLanguage settled with, the (boosted) classifier result
\* and the trimmed text.
Reconciliation(api, h, t) ==
  LET a == api.value
  IN IF api.threw THEN HybridCatch(h)
     ELSE IF Truthy(a) /\ Truthy(h.language) /\ a = h.language
       THEN Agreement(a, h)
     ELSE IF Truthy(a) /\ ~Truthy(h.language)
       THEN ApiOnly(a)
     ELSE IF ~Truthy(a) /\ Truthy(h.language)
       THEN Resolution(h.language, RMul(h.confidence, Rat(8, 10)), "heuristic-only")
     ELSE IF Truthy(a) /\ Truthy(h.language) /\ a # h.language
       THEN Disagreement(a, h, t)
     ELSE Fallthrough(a, h)

---------------------------------------------------------------------------
\* One call of detectLanguageHybrid.
callVars == <<text, isMobile, pc, trimmedText, heuristicResult, timer, requests,
              apiResult, external, outcome, result>>

\* The input form.
formVars == <<idiomInput, formDetectedLanguage, sourceLanguage, lastDetectedInput,
              timeoutId, timers, detections, keystrokes, applied>>

\* The locals of the form, which the application does not see.
formLocals == <<formDetectedLanguage, lastDetectedInput, timeoutId, timers,
                detections, keystrokes, applied>>

\* The application.
submitVars == <<variant, targetLanguages, results, isLoading, isTransitioning, error,
                lastSubmittedValues, duplicateNotification, loadingTimers,
                translations, requestsSent, submits, succeeded>>

\* The state that a single call leaves alone.
elsewhere == <<calls, formVars, submitVars>>

vars == <<callVars, elsewhere>>

NoResult == Resolution(JsUndefined, RZero, "")

\* setTimeout(detectLanguageAsync, 1000): a timer with its id and what the
\* function it will call has closed over.
Timeout(id, input, detected) ==
  [id |-> id, idiomInput |-> input, detectedLanguage |-> detected]

\* No result of a detection has been applied.
NotApplied == [happened |-> FALSE, trimmedInput |-> StringValue(0, <<>>, 0),
               current |-> StringValue(0, <<>>, 0)]

\* The form before it is mounted.
FormUnmounted ==
  /\ idiomInput = StringValue(0, <<>>, 0)
  /\ formDetectedLanguage = JsNull
  /\ sourceLanguage = JsNull
  /\ lastDetectedInput = StringValue(0, <<>>, 0)
  /\ timeoutId = 0
  /\ timers = {}
  /\ detections = <<>>
  /\ keystrokes = 0
  /\ applied = NotApplied

\* App.tsx:15-27: a submission: the idiom, the source language and the target
\* languages (an array without repetitions, IdiomInputForm.tsx:214-217).
Submission(idiom, source, targets) ==
  [present |-> TRUE, idiom |-> idiom, sourceLanguage |-> source,
   targetLanguages |-> targets]

\* null where a submission or a response is expected.
NoSubmission ==
  [present |-> FALSE, idiom |-> StringValue(0, <<>>, 0), sourceLanguage |-> JsNull,
   targetLanguages |-> {}]

\* App.tsx:13-27: the initial state of the application, with handleSubmit
\* taken from one of files.
AppInitial(files) ==
  /\ variant \in files
  /\ targetLanguages = {}
  /\ results = NoSubmission
  /\ isLoading = FALSE
  /\ isTransitioning = FALSE
  /\ error = JsNull
  /\ lastSubmittedValues = NoSubmission
  /\ duplicateNotification = JsNull
  /\ loadingTimers = 0
  /\ translations = <<>>
  /\ requestsSent = 0
  /\ submits = 0
  /\ succeeded = {}

Init ==
  /\ text \in Inputs
  /\ isMobile \in BOOLEAN
  /\ pc = "start"
  /\ trimmedText = StringValue(0, <<>>, 0)
  /\ heuristicResult = Classification(JsUndefined, RZero)
  /\ timer = "unset"
  /\ requests = 0
  /\ apiResult = Resolved(JsUndefined)
  /\ external = "not-called"
  /\ outcome = "pending"
  /\ result = NoResult
  /\ calls = <<>>
  /\ FormUnmounted
  /\ AppInitial({"App.tsx"})

\* return r
Return(r) == pc' = "done" /\ outcome' = "fulfilled" /\ result' = r

\* An error thrown outside every try block rejects the promise of the call.
Throw == pc' = "done" /\ outcome' = "rejected" /\ result' = NoResult

\* languageDetectionService.ts:432-450
Validate ==
  /\ pc = "start"
  /\ IF IsInvalidInput(text)
       THEN Return(Resolution(JsNull, RZero, "invalid-input")) /\ UNCHANGED trimmedText
     ELSE IF text.type # "string"
       THEN Throw /\ UNCHANGED trimmedText
     ELSE IF IsTooShort(Trim(text))
       THEN Return(Resolution(JsNull, RZero, "text-too-short")) /\ trimmedText' = Trim(text)
     ELSE pc' = "heuristic" /\ trimmedText' = Trim(text) /\ UNCHANGED <<outcome, result>>
  /\ UNCHANGED <<elsewhere, text, isMobile, heuristicResult, timer, requests, apiResult, external>>

\* languageDetectionService.ts:452-492 (the classifier throws on no string, so
\* the catch block at 468-475 is never entered)
RunHeuristic ==
  /\ pc = "heuristic"
  /\ LET h == MobileBoost(HeuristicOf(trimmedText), isMobile)
     IN /\ heuristicResult' = h
        /\ IF isMobile /\ IsVeryConfidentAndDistinctive(h)
             THEN Return(Resolution(h.language, h.confidence, "mobile-heuristic-priority"))
             ELSE pc' = "detect" /\ UNCHANGED <<outcome, result>>
  /\ UNCHANGED <<elsewhere, text, isMobile, trimmedText, timer, requests, apiResult, external>>

\* languageDetectionService.ts:496 and 4-40: the call of detectLanguage, up to
\* the first await.
CallDetectLanguage ==
  /\ pc = "detect"
  /\ IF IsShortForApi(trimmedText)
       THEN /\ apiResult' = Resolved(HeuristicOf(trimmedText).language)
            /\ pc' = "reconcile"
            /\ UNCHANGED <<timer, requests, external>>
       ELSE /\ timer' = "armed"
            /\ requests' = requests + 1
            /\ external' = "pending"
            /\ pc' = "fetch"
            /\ UNCHANGED apiResult
  /\ UNCHANGED <<elsewhere, text, isMobile, trimmedText, heuristicResult, outcome, result>>

\* languageDetectionService.ts:42-52: the response arrives, with status ok or not.
FetchResolves ==
  /\ pc = "fetch"
  /\ timer' = "cleared"
  /\ \E ok \in BOOLEAN :
       IF ok THEN pc' = "json" /\ UNCHANGED <<apiResult, external>>
       ELSE /\ pc' = "reconcile"
            /\ external' = "not-ok"
            /\ apiResult' = Resolved(HeuristicOf(trimmedText).language)
  /\ UNCHANGED <<elsewhere, text, isMobile, trimmedText, heuristicResult, requests, outcome, result>>

\* A rejected fetch answered with a second request (up to three in all).
FetchRejectsAndRetries ==
  /\ pc = "fetch"
  /\ requests < 3
  /\ requests' = requests + 1
  /\ UNCHANGED <<elsewhere, text, isMobile, pc, trimmedText, heuristicResult, timer, apiResult,
                 external, outcome, result>>

\* languageDetectionService.ts:139-165: fetch rejects with a network error.
FetchRejects ==
  /\ pc = "fetch"
  /\ external' = "network-error"
  /\ apiResult' = DetectCatch(trimmedText)
  /\ pc' = "reconcile"
  /\ UNCHANGED <<elsewhere, text, isMobile, trimmedText, heuristicResult, timer, requests, outcome, result>>

\* languageDetectionService.ts:20-23: the timer fires and aborts the request; a
\* pending fetch rejects with an AbortError.  The timer is not cleared when
\* fetch rejects, and then fires with no request left to abort.
TimeoutFires ==
  /\ timer = "armed"
  /\ timer' = "fired"
  /\ IF pc = "fetch"
       THEN /\ external' = "timeout"
            /\ apiResult' = DetectCatch(trimmedText)
            /\ pc' = "reconcile"
       ELSE UNCHANGED <<apiResult, external, pc>>
  /\ UNCHANGED <<elsewhere, text, isMobile, trimmedText, heuristicResult, requests, outcome, result>>

\* languageDetectionService.ts:52-138: the body arrives and parses.
JsonResolves ==
  /\ pc = "json"
  /\ \E data \in JsonBodies :
       /\ external' = ExternalOutcome(data)
       /\ apiResult' = DetectFromData(trimmedText, data)
  /\ pc' = "reconcile"
  /\ UNCHANGED <<elsewhere, text, isMobile, trimmedText, heuristicResult, timer, requests, outcome, result>>

\* languageDetectionService.ts:52, 139-165: reading or parsing the body fails.
JsonRejects ==
  /\ pc = "json"
  /\ external' = "body-failed"
  /\ apiResult' = DetectCatch(trimmedText)
  /\ pc' = "reconcile"
  /\ UNCHANGED <<elsewhere, text, isMobile, trimmedText, heuristicResult, timer, requests, outcome, result>>

\* languageDetectionService.ts:495-593
Reconcile ==
  /\ pc = "reconcile"
  /\ Return(Reconciliation(apiResult, heuristicResult, trimmedText))
  /\ UNCHANGED <<elsewhere, text, isMobile, trimmedText, heuristicResult, timer, requests, apiResult,
                 external>>

Next ==
  \/ Validate
  \/ RunHeuristic
  \/ CallDetectLanguage
  \/ FetchResolves
  \/ FetchRejects
  \/ TimeoutFires
  \/ JsonResolves
  \/ JsonRejects
  \/ Reconcile

Spec == Init /\ [][Next]_vars

\* The event loop runs every continuation that is ready and fires an armed
\* timer; nothing obliges the network to deliver a response or a body.
FairSpec ==
  /\ Spec
  /\ WF_vars(Validate)
  /\ WF_vars(RunHeuristic)
  /\ WF_vars(CallDetectLanguage)
  /\ WF_vars(TimeoutFires)
  /\ WF_vars(Reconcile)


---------------------------------------------------------------------------
\* Vocabulary of the properties.

\* The call has returned to its caller.
Done == pc = "done"

\* The classifier's own result for the text of the call.
Heuristic == HeuristicOf(trimmedText)

\* The classifier has been run by the call.
Classified == pc \in {"detect", "fetch", "json", "reconcile"} \/ (Done /\ result.method \notin {"invalid-input", "text-too-short"} /\ outcome = "fulfilled")

\* The ways the request to the external service fails: network error, abort
\* by the timer, non-OK status, unreadable body, no recognizable code.
ExternalFailed == external \in {"network-error", "timeout", "not-ok", "body-failed", "no-code"}

\* The method tags of the resolver.
Methods ==
  {"invalid-input", "text-too-short", "mobile-heuristic-priority", "hybrid-agreement",
   "api-only", "heuristic-only", "english-portuguese-resolution", "api-preferred",
   "api-fallback", "heuristic-fallback", "all-methods-failed", "heuristic-emergency"}

IsConfidence(x) == DOMAIN x = {"n", "d"} /\ x.n \in Nat /\ x.d \in Nat \ {0}

InUnitInterval(x) == RLe(RZero, x) /\ RLe(x, ROne)

---------------------------------------------------------------------------
\* C1: detectLanguageHybrid never raises to its caller: the promise of the call
\* is never rejected, and once the call has completed, whatever the input and
\* however the request to the external service went, it is fulfilled with a
\* result of the three fields language, confidence and method.
C1_NeverRaises ==
  /\ outcome # "rejected"
  /\ Done =>
       /\ outcome = "fulfilled"
       /\ DOMAIN result = {"language", "confidence", "method"}
       /\ IsConfidence(result.confidence)
       /\ result.method \in Methods

\* C1 witness: a call on a value that is not a string has completed, and so
\* has no pending request.
C1_Witness ==
  /\ Done
  /\ text.type = "number"
  /\ text.num = 5
  /\ outcome = "fulfilled"
  /\ result.method = "invalid-input"

\* C2: when the request to the external service has failed, the method of the
\* result is never "hybrid-agreement" nor "api-only".
C2_NoAgreementWhenExternalFailed ==
  (Done /\ ExternalFailed) => result.method \notin {"hybrid-agreement", "api-only"}

\* C3: when the classifier finds a language and the request to the external
\* service has failed, the result is that language with method
\* "heuristic-only" and a confidence not above the classifier's own.
C3_HeuristicOnlyWhenExternalFailed ==
  (Done /\ ExternalFailed /\ Truthy(Heuristic.language)) =>
     /\ result.language = Heuristic.language
     /\ result.method = "heuristic-only"
     /\ RLe(result.confidence, Heuristic.confidence)

\* C4: when the request to the external service has failed and the classifier
\* finds no language, the result is {none, 0, "all-methods-failed"}.
C4_AllMethodsFailed ==
  (Done /\ ExternalFailed /\ ~Truthy(Heuristic.language)) =>
     result = Resolution(JsNull, RZero, "all-methods-failed")

\* C5: every call eventually returns, whatever the external service does.
C5_EventuallyReturns == <>Done

\* C6: in the classifier's result and in the result of the call, a language of
\* none comes with the confidence 0.
C6_NoneHasZeroConfidence ==
  /\ Classified =>
       /\ ~Truthy(Heuristic.language) => Heuristic.confidence = RZero
       /\ ~Truthy(heuristicResult.language) => heuristicResult.confidence = RZero
  /\ (Done /\ outcome = "fulfilled") =>
       (~Truthy(result.language) => result.confidence = RZero)

\* C6 witness: the call has returned no language after the classifier found
\* none and the request to the external service failed.
C6_Witness ==
  /\ Done
  /\ external = "network-error"
  /\ Heuristic.language = JsNull
  /\ result.language = JsNull

\* C7: the confidence of the classifier's result, before and after the mobile
\* boost, and the confidence of the result of the call lie in [0, 1].
C7_ConfidenceInUnitInterval ==
  /\ Classified =>
       /\ InUnitInterval(Heuristic.confidence)
       /\ InUnitInterval(heuristicResult.confidence)
  /\ (Done /\ outcome = "fulfilled") => InUnitInterval(result.confidence)

\* C7 witness: on a mobile device the classifier's confidence was above 0.8
\* before the mobile boost, and the agreement boost was applied on top.
C7_Witness ==
  /\ Done
  /\ isMobile
  /\ RLt(Rat(8, 10), Heuristic.confidence)
  /\ heuristicResult.confidence = ROne
  /\ result.method = "hybrid-agreement"
  /\ result.confidence = ROne

\* C8: the language of the classifier's result, the value detectLanguage
\* resolves to and the language of the result of the call are none or a
\* member of the Language enumeration.
C8_LanguageOrNone ==
  /\ Classified => Heuristic.language \in Languages \cup {JsNull}
  /\ pc \in {"reconcile", "done"} /\ external # "not-called" =>
       apiResult.value \in Languages \cup {JsNull}
  /\ (Done /\ outcome = "fulfilled") => result.language \in Languages \cup {JsNull}

\* C9: when the input is no string, or its trimmed length is below 2, the call
\* returns in its first step with language none and confidence 0, and no
\* request is issued.
C9_InvalidInputReturnsAtOnce ==
  (text.type # "string" \/ StrLength(Trim(text)) < 2) =>
     /\ requests = 0
     /\ external = "not-called"
     /\ pc \in {"start", "done"}
     /\ Done => /\ outcome = "fulfilled"
                /\ result.language = JsNull
                /\ result.confidence = RZero

\* C9 witness: a call on a string of blanks around one character has returned.
C9_Witness ==
  /\ Done
  /\ text = StringValue(1, <<"a">>, 1)
  /\ result.method = "text-too-short"
  /\ requests = 0

TopLanguages(scores) ==
  {l \in Languages : scores[l] = Max({scores[x] : x \in Languages})}

\* C11: whenever two or more languages share the maximum score of the text,
\* the classifier returns {none, 0}.
C11_TieGivesNone ==
  (Classified /\ Cardinality(TopLanguages(ScoresOf(trimmedText))) >= 2) =>
     Heuristic = Classification(JsNull, RZero)

\* C11 witness: the classifier has run on a text of at least three characters
\* for which exactly two languages share a maximum score of 2 or more.
C11_Witness ==
  /\ Classified
  /\ StrLength(trimmedText) >= 3
  /\ Cardinality(TopLanguages(ScoresOf(trimmedText))) = 2
  /\ \E l \in Languages : ScoresOf(trimmedText)[l] >= 2 /\ l \in TopLanguages(ScoresOf(trimmedText))
  /\ Heuristic.language = JsNull


\* C12: for every text whose trimmed length is below 3 the classifier returns
\* {none, 0}.
C12_ShortTextGivesNone ==
  (Classified /\ StrLength(trimmedText) < 3) => Heuristic = Classification(JsNull, RZero)


\* The external service answered with a code of the map that names a member
\* of the Language enumeration.
ExternalSucceeded == external = "mapped" /\ apiResult.value \in Languages

\* C13 (as stated): when the external service returns the language the
\* classifier returns, the confidence of the result is strictly greater than
\* the classifier's own confidence for the text.
C13_AsStated ==
  (Done /\ ExternalSucceeded /\ apiResult.value = Heuristic.language) =>
     RLt(Heuristic.confidence, result.confidence)

\* C13 (amended): when the external service returns the language the
\* classifier returns, the result has method "hybrid-agreement" and the
\* confidence min(c + 0.3, 1) for the classifier's (mobile-boosted) confidence
\* c; it is never below the classifier's own confidence, and strictly greater
\* whenever that confidence is below 1.
C13_AgreementBoost ==
  (Done /\ ExternalSucceeded /\ apiResult.value = Heuristic.language) =>
     /\ result.language = Heuristic.language
     /\ result.method = "hybrid-agreement"
     /\ result.confidence = RMin(RAdd(heuristicResult.confidence, Rat(3, 10)), ROne)
     /\ RLe(Heuristic.confidence, result.confidence)
     /\ RLt(Heuristic.confidence, ROne) => RLt(Heuristic.confidence, result.confidence)

\* C13 witness: the external service agreed with a classifier whose confidence
\* is 1, and the result has confidence 1.
C13_Witness ==
  /\ Done
  /\ ExternalSucceeded
  /\ apiResult.value = Heuristic.language
  /\ Heuristic.confidence = ROne
  /\ result.method = "hybrid-agreement"
  /\ result.confidence = ROne

\* C14: when the external service succeeds with a language and the classifier
\* returns none, the result is that language with confidence 0.8 and method
\* "api-only".
C14_ApiOnly ==
  (Done /\ ExternalSucceeded /\ Heuristic.language = JsNull) =>
     result = Resolution(apiResult.value, Rat(8, 10), "api-only")

\* C14 witness: the external service answered German for a text in which the
\* classifier finds no language.
C14_Witness ==
  /\ Done
  /\ ExternalSucceeded
  /\ apiResult.value = German
  /\ Heuristic.language = JsNull
  /\ result.method = "api-only"

\* C15: when the external service succeeds with a language E, the classifier
\* returns another language H and {E, H} is not {English, Portuguese}, the
\* result is E with confidence 0.6 and method "api-preferred".
C15_ApiPreferred ==
  (/\ Done
   /\ ExternalSucceeded
   /\ Truthy(Heuristic.language)
   /\ apiResult.value # Heuristic.language
   /\ {apiResult.value, Heuristic.language} # {English, Portuguese}) =>
     result = Resolution(apiResult.value, Rat(6, 10), "api-preferred")

\* C15 witness: the external service answered German for a text the
\* classifier takes for English.
C15_Witness ==
  /\ Done
  /\ ExternalSucceeded
  /\ apiResult.value = German
  /\ Heuristic.language = English
  /\ result.method = "api-preferred"


\* C16: within one call at most one request is sent to the external service:
\* the number of requests never exceeds 1, and a step that sends a request is
\* the first to do so.
C16_AtMostOneRequest ==
  /\ requests <= 1
  /\ external # "not-called" => requests = 1

\* C16 witness: the call has returned after its one request was aborted by the
\* timer.
C16_Witness ==
  /\ Done
  /\ external = "timeout"
  /\ timer = "fired"
  /\ requests = 1


\* C19: whenever the request to the external service has ended without a
\* member of the Language enumeration (abort by the timer, network error,
\* non-OK status, unreadable body, no code in the body, a code that names no
\* supported language), detectLanguage does not reject and resolves to the
\* language the classifier returns for the text.
C19_FallbackIsHeuristic ==
  (/\ pc \in {"reconcile", "done"}
   /\ external \notin {"not-called", "pending"}
   /\ ~ExternalSucceeded) =>
     apiResult = Resolved(Heuristic.language)


---------------------------------------------------------------------------
\* Several calls of detectLanguageHybrid on one page.  Every call has its own
\* locals, its own AbortController and timer and its own request; the calls
\* are interleaved at their awaits.

\* The number of concurrent calls.
NCalls == 2

CallIds == 1..NCalls

\* What the network does with the request of a call: it fails the request
\* ("network-error"), stays silent until the timer of the call has fired
\* ("silent"), or answers 200 with a body ("body").
Net(kind, data) == [kind |-> kind, data |-> data]

ConcurrentNets ==
  { Net("network-error", Body(FALSE, JNull, JNull, JNull)),
    Net("silent", Body(FALSE, JNull, JNull, JNull)),
    Net("body", Body(TRUE, JString(<<"d","e">>), JNull, JNull)) }

\* The texts of the concurrent calls: one the classifier takes for English
\* and one in which it finds no language.
ConcurrentTexts == {s \in TrimmedStrings : s.words \in {<<"word">>, <<"a", "ab">>}}

\* No classifier result yet.
NotRun == Classification(JsUndefined, RZero)

\* The locals of a call that has not started.
NewCall(txt, net) ==
  [text |-> txt, net |-> net, pc |-> "start",
   heuristicResult |-> NotRun, classified |-> NotRun, fallback |-> NotRun, runs |-> 0,
   timer |-> "unset", apiResult |-> Resolved(JsUndefined), result |-> NoResult]

\* The number of calls of the classifier made so far, by all calls.
ClassifierRuns == SumOver([id \in CallIds |-> calls[id].runs], NCalls)

\* A classifier whose result depends on how many calls were made before, as
\* with a pattern object shared between calls that keeps its lastIndex.
ClassifierCallStateful(t, before) ==
  IF before % 2 = 1 THEN Classification(JsNull, RZero) ELSE HeuristicOf(t)

\* languageDetectionService.ts:169-422: a call detectLanguageHeuristic(t) made
\* after `before` earlier calls.  The patterns are created by each call and
\* String.prototype.match restarts a global pattern at index 0.
ClassifierCall(t, before) == HeuristicOf(t)

\* One AbortController for all calls: the timer aborts whichever request is
\* pending.
AbortTargetShared(id) ==
  IF \E other \in CallIds : calls[other].pc = "fetch"
  THEN CHOOSE other \in CallIds : calls[other].pc = "fetch"
  ELSE id

\* languageDetectionService.ts:19-23: the request the timer of a call aborts:
\* controller is a local of the call.
AbortTarget(id) == id

\* languageDetectionService.ts:14, 47, 98, 136, 139-142: detectLanguage of
\* call rec leaves its try block for the fallback to the classifier.
FallenBack(rec) == [rec EXCEPT !.pc = "fallback"]

\* languageDetectionService.ts:432-450
CValidate(id) ==
  LET rec == calls[id]
  IN /\ rec.pc = "start"
     /\ calls' = [calls EXCEPT ![id] =
          IF IsInvalidInput(rec.text)
            THEN [rec EXCEPT !.pc = "done",
                             !.result = Resolution(JsNull, RZero, "invalid-input")]
          ELSE IF IsTooShort(Trim(rec.text))
            THEN [rec EXCEPT !.pc = "done",
                             !.result = Resolution(JsNull, RZero, "text-too-short")]
          ELSE [rec EXCEPT !.pc = "heuristic"]]
     /\ UNCHANGED <<callVars, formVars, submitVars>>

\* languageDetectionService.ts:452-492
CRunHeuristic(id) ==
  LET rec == calls[id]
      raw == ClassifierCall(Trim(rec.text), ClassifierRuns)
      boosted == MobileBoost(raw, isMobile)
      ran == [rec EXCEPT !.classified = raw, !.runs = rec.runs + 1,
                         !.heuristicResult = boosted]
  IN /\ rec.pc = "heuristic"
     /\ calls' = [calls EXCEPT ![id] =
          IF isMobile /\ IsVeryConfidentAndDistinctive(boosted)
          THEN [ran EXCEPT !.pc = "done",
                           !.result = Resolution(boosted.language, boosted.confidence,
                                                 "mobile-heuristic-priority")]
          ELSE [ran EXCEPT !.pc = "detect"]]
     /\ UNCHANGED <<callVars, formVars, submitVars>>

\* languageDetectionService.ts:496 and 4-40
CCallDetectLanguage(id) ==
  LET rec == calls[id]
  IN /\ rec.pc = "detect"
     /\ calls' = [calls EXCEPT ![id] =
          IF IsShortForApi(Trim(rec.text)) THEN FallenBack(rec)
          ELSE [rec EXCEPT !.timer = "armed", !.pc = "fetch"]]
     /\ UNCHANGED <<callVars, formVars, submitVars>>

\* languageDetectionService.ts:139-165: the request of the call fails.
CFetchRejects(id) ==
  LET rec == calls[id]
  IN /\ rec.pc = "fetch"
     /\ rec.net.kind = "network-error"
     /\ calls' = [calls EXCEPT ![id] = FallenBack(rec)]
     /\ UNCHANGED <<callVars, formVars, submitVars>>

\* languageDetectionService.ts:42-52: the response of the call arrives.
CFetchResolves(id) ==
  LET rec == calls[id]
  IN /\ rec.pc = "fetch"
     /\ rec.net.kind = "body"
     /\ calls' = [calls EXCEPT ![id] = [rec EXCEPT !.timer = "cleared", !.pc = "json"]]
     /\ UNCHANGED <<callVars, formVars, submitVars>>

\* languageDetectionService.ts:52-138: the body of the call arrives.
CJsonResolves(id) ==
  LET rec == calls[id]
  IN /\ rec.pc = "json"
     /\ calls' = [calls EXCEPT ![id] =
          IF ExternalOutcome(rec.net.data) = "mapped"
          THEN [rec EXCEPT !.apiResult = DetectFromData(Trim(rec.text), rec.net.data),
                           !.pc = "reconcile"]
          ELSE FallenBack(rec)]
     /\ UNCHANGED <<callVars, formVars, submitVars>>

\* languageDetectionService.ts:20-23: the timer of the call fires.  While the
\* request is pending it fires only when the network stays silent.
CTimeoutFires(id) ==
  /\ calls[id].timer = "armed"
  /\ calls[id].pc = "fetch" => calls[id].net.kind = "silent"
  /\ calls' = [other \in CallIds |->
       LET rec == IF other = id THEN [calls[other] EXCEPT !.timer = "fired"]
                  ELSE calls[other]
       IN IF other = AbortTarget(id) /\ rec.pc = "fetch" THEN FallenBack(rec) ELSE rec]
  /\ UNCHANGED <<callVars, formVars, submitVars>>

\* languageDetectionService.ts:14, 47, 98, 136, 143-164: the fallback of the
\* call runs the classifier again and resolves with its language.
CFallback(id) ==
  LET rec == calls[id]
      again == ClassifierCall(Trim(rec.text), ClassifierRuns)
  IN /\ rec.pc = "fallback"
     /\ calls' = [calls EXCEPT ![id] =
          [rec EXCEPT !.fallback = again, !.runs = rec.runs + 1,
                      !.apiResult = Resolved(again.language), !.pc = "reconcile"]]
     /\ UNCHANGED <<callVars, formVars, submitVars>>

\* languageDetectionService.ts:495-593
CReconcile(id) ==
  LET rec == calls[id]
  IN /\ rec.pc = "reconcile"
     /\ calls' = [calls EXCEPT ![id] =
          [rec EXCEPT !.pc = "done",
                      !.result = Reconciliation(rec.apiResult, rec.heuristicResult,
                                                Trim(rec.text))]]
     /\ UNCHANGED <<callVars, formVars, submitVars>>

ConcurrentInit ==
  /\ calls \in [CallIds -> {NewCall(txt, net) : txt \in ConcurrentTexts, net \in ConcurrentNets}]
  /\ isMobile \in BOOLEAN
  /\ text = StringValue(0, <<>>, 0)
  /\ pc = "start"
  /\ trimmedText = StringValue(0, <<>>, 0)
  /\ heuristicResult = Classification(JsUndefined, RZero)
  /\ timer = "unset"
  /\ requests = 0
  /\ apiResult = Resolved(JsUndefined)
  /\ external = "not-called"
  /\ outcome = "pending"
  /\ result = NoResult
  /\ FormUnmounted
  /\ AppInitial({"App.tsx"})

ConcurrentNext ==
  \E id \in CallIds :
    \/ CValidate(id)
    \/ CRunHeuristic(id)
    \/ CCallDetectLanguage(id)
    \/ CFetchRejects(id)
    \/ CFetchResolves(id)
    \/ CJsonResolves(id)
    \/ CTimeoutFires(id)
    \/ CFallback(id)
    \/ CReconcile(id)

ConcurrentSpec == ConcurrentInit /\ [][ConcurrentNext]_vars

\* The result of a call run alone on a text, on a device, with the network
\* behaving in a given way.
SoloResult(txt, mobile, net) ==
  LET t == Trim(txt)
      h == MobileBoost(HeuristicOf(t), mobile)
      api == IF IsShortForApi(t) THEN Resolved(HeuristicOf(t).language)
             ELSE IF net.kind = "body" THEN DetectFromData(t, net.data)
             ELSE DetectCatch(t)
  IN IF IsInvalidInput(txt) THEN Resolution(JsNull, RZero, "invalid-input")
     ELSE IF IsTooShort(t) THEN Resolution(JsNull, RZero, "text-too-short")
     ELSE IF mobile /\ IsVeryConfidentAndDistinctive(h)
       THEN Resolution(h.language, h.confidence, "mobile-heuristic-priority")
     ELSE Reconciliation(api, h, t)

\* C17: concurrent calls share no mutable state: whatever the interleaving of
\* their steps, timers and responses, every call returns the result of a call
\* run alone with the same text and the same behaviour of the network.
C17_CallsAreIndependent ==
  \A id \in CallIds :
    calls[id].pc = "done" =>
      calls[id].result = SoloResult(calls[id].text, isMobile, calls[id].net)

\* C17 witness: two calls on the same text have both returned; the request of
\* the first was aborted by its timer after the second had received its
\* response, and their results differ.
C17_Witness ==
  /\ calls[1].pc = "done"
  /\ calls[2].pc = "done"
  /\ calls[1].text = calls[2].text
  /\ calls[1].net.kind = "silent"
  /\ calls[1].timer = "fired"
  /\ calls[2].net.kind = "body"
  /\ calls[1].result.method = "hybrid-agreement"
  /\ calls[2].result.method = "api-preferred"

---------------------------------------------------------------------------
\* The language detection effect of the input form
\* (components/IdiomInputForm.tsx:53-161).

\* The number of changes of the input field.
MaxKeystrokes == 3

\* The values typed into the field: nothing, one letter, a word the
\* classifier takes for English and a text in which it finds no language,
\* each with or without a blank after it.
FormInputs ==
  {s \in Strings : /\ s.pre = 0
                   /\ s.post <= 1
                   /\ s.words \in {<<>>, <<"a">>, <<"word">>, <<"a", "ab">>}}

\* IdiomInputForm.tsx:55: a call of detectLanguageAsync awaiting the resolver:
\* idiomInput is the value its closure holds, trimmedInput its local.
Detection(input) == [idiomInput |-> input, trimmedInput |-> Trim(input)]

\* IdiomInputForm.tsx:57: !trimmedInput || trimmedInput.length < 3
IsBlankOrShort(t) == StrLength(t) = 0 \/ StrLength(t) < 3

\* A test that reads the field's value at the time the result arrives.
InputUnchangedNow(d) == Trim(idiomInput) = d.trimmedInput

\* IdiomInputForm.tsx:85: idiomInput.trim() === trimmedInput, in which
\* idiomInput is the constant of the render the effect ran in.
InputUnchanged(d) == Trim(d.idiomInput) = d.trimmedInput

\* IdiomInputForm.tsx:82: what detectLanguageHybrid(trimmedInput) may be
\* fulfilled with, over the behaviours of the network.
DetectionResults(t) == {SoloResult(t, isMobile, net) : net \in ConcurrentNets}

\* Removal of the entry at a position of a sequence.
RemoveAt(seq, i) == [j \in 1..(Len(seq) - 1) |-> IF j < i THEN seq[j] ELSE seq[j + 1]]

\* A cleanup that clears no timer.
ClearTimeoutMissing(pending, id) == pending

\* IdiomInputForm.tsx:160: clearTimeout(timeoutId)
ClearTimeout(pending, id) == {t \in pending : t.id # id}

\* IdiomInputForm.tsx:164-165, 53, 159-161: the field changes; the form
\* renders again, the cleanup of the last run of the effect clears its timer
\* and the effect sets a new one.
Keystroke(value) ==
  /\ keystrokes < MaxKeystrokes
  /\ value # idiomInput
  /\ idiomInput' = value
  /\ timeoutId' = timeoutId + 1
  /\ timers' = ClearTimeout(timers, timeoutId)
                  \cup {Timeout(timeoutId + 1, value, formDetectedLanguage)}
  /\ keystrokes' = keystrokes + 1
  /\ UNCHANGED <<callVars, calls, submitVars, formDetectedLanguage, sourceLanguage,
                 lastDetectedInput, detections, applied>>

\* IdiomInputForm.tsx:54-82, 159: the timer fires and detectLanguageAsync runs
\* up to its await.
DebounceFires(id) ==
  /\ \E t \in timers : t.id = id
  /\ LET fired == CHOOSE t \in timers : t.id = id
         d == Detection(fired.idiomInput)
     IN
     /\ timers' = timers \ {fired}
     /\ IF IsBlankOrShort(d.trimmedInput)
        THEN /\ formDetectedLanguage' = JsNull
             /\ sourceLanguage' = JsNull
             /\ lastDetectedInput' = StringValue(0, <<>>, 0)
             /\ UNCHANGED detections
        ELSE IF lastDetectedInput = d.trimmedInput /\ Truthy(fired.detectedLanguage)
        THEN UNCHANGED <<formDetectedLanguage, sourceLanguage, lastDetectedInput,
                         detections>>
        ELSE /\ detections' = Append(detections, d)
             /\ UNCHANGED <<formDetectedLanguage, sourceLanguage, lastDetectedInput>>
     /\ UNCHANGED <<callVars, calls, submitVars, idiomInput, timeoutId, keystrokes, applied>>

\* IdiomInputForm.tsx:82-114, 155-157: the resolver fulfils the promise a call
\* of detectLanguageAsync awaits, and the call goes on.
DetectionCompletes(i) ==
  /\ i \in DOMAIN detections
  /\ \E detectionResult \in DetectionResults(detections[i].trimmedInput) :
     LET d == detections[i]
     IN
     /\ detections' = RemoveAt(detections, i)
     /\ IF InputUnchanged(d)
        THEN /\ formDetectedLanguage' = detectionResult.language
             /\ lastDetectedInput' = d.trimmedInput
             /\ sourceLanguage' = detectionResult.language
             /\ applied' = [happened |-> TRUE, trimmedInput |-> d.trimmedInput,
                            current |-> Trim(idiomInput)]
        ELSE UNCHANGED <<formDetectedLanguage, lastDetectedInput, sourceLanguage,
                         applied>>
     /\ UNCHANGED <<callVars, calls, submitVars, idiomInput, timeoutId, timers, keystrokes>>

\* The form after its first render: the field is empty and the effect has
\* set its first timer.
FormInit ==
  /\ isMobile \in BOOLEAN
  /\ text = StringValue(0, <<>>, 0)
  /\ pc = "start"
  /\ trimmedText = StringValue(0, <<>>, 0)
  /\ heuristicResult = Classification(JsUndefined, RZero)
  /\ timer = "unset"
  /\ requests = 0
  /\ apiResult = Resolved(JsUndefined)
  /\ external = "not-called"
  /\ outcome = "pending"
  /\ result = NoResult
  /\ calls = <<>>
  /\ idiomInput = StringValue(0, <<>>, 0)
  /\ formDetectedLanguage = JsNull
  /\ sourceLanguage = JsNull
  /\ lastDetectedInput = StringValue(0, <<>>, 0)
  /\ timeoutId = 1
  /\ timers = {Timeout(1, StringValue(0, <<>>, 0), JsNull)}
  /\ detections = <<>>
  /\ keystrokes = 0
  /\ applied = NotApplied
  /\ AppInitial({"App.tsx"})

FormNext ==
  \/ \E value \in FormInputs : Keystroke(value)
  \/ \E id \in 1..(MaxKeystrokes + 1) : DebounceFires(id)
  \/ \E i \in 1..(MaxKeystrokes + 1) : DetectionCompletes(i)

FormSpec == FormInit /\ [][FormNext]_vars

\* C20: the result of a detection started for an input is applied only if
\* the trimmed value of the field is still that input when the result
\* arrives.
C20_AppliedOnlyIfCurrent ==
  applied.happened => applied.trimmedInput = applied.current

---------------------------------------------------------------------------
\* C21: for every supported language, the classifier alone takes the sentence
\* that the examples table gives for the language to be in that language,
\* with a confidence above 0.
C21_ExamplesAreClassified ==
  \A l \in Languages :
    (Classified /\ text = examples[l]) =>
       /\ Heuristic.language = l
       /\ RLt(RZero, Heuristic.confidence)

\* C22: a call on a string of trimmed length at least 2 passes through
\* start, heuristic-computed, external-attempted, reconciled and done in that
\* order: a request is issued only after the classifier has run, and no call
\* returns before it has issued its request.
C22_StatesInOrder ==
  /\ requests > 0 => heuristicResult # Classification(JsUndefined, RZero)
  /\ (Done /\ text.type = "string" /\ StrLength(Trim(text)) >= 2) => requests > 0

\* C23: for a text of trimmed length at least 3 the classifier returns
\* {none, 0} when the maximum score is below 2; when the maximum is 2 or more
\* and exactly one language attains it, the classifier returns that language
\* with a confidence above 0.
C23_ThresholdThenArgmax ==
  (Classified /\ StrLength(trimmedText) >= 3) =>
     LET scores == ScoresOf(trimmedText)
         maxScore == Max({scores[l] : l \in Languages})
     IN /\ maxScore < 2 => Heuristic = Classification(JsNull, RZero)
        /\ (maxScore >= 2 /\ Cardinality(TopLanguages(scores)) = 1) =>
              /\ Heuristic.language \in TopLanguages(scores)
              /\ RLt(RZero, Heuristic.confidence)

\* C23 witness: the classifier has run on a text of at least three characters
\* in which one language alone has the maximum score, which is exactly 2.
C23_Witness ==
  /\ Classified
  /\ StrLength(trimmedText) >= 3
  /\ Max({ScoresOf(trimmedText)[l] : l \in Languages}) = 2
  /\ Cardinality(TopLanguages(ScoresOf(trimmedText))) = 1
  /\ Heuristic.language \in Languages

\* C23 (the other case): the classifier has run on a text of at least three
\* characters whose maximum score is below 2.
C23_BelowThresholdReached ==
  /\ Classified
  /\ StrLength(trimmedText) >= 3
  /\ Max({ScoresOf(trimmedText)[l] : l \in Languages}) < 2

\* C24: when the external service and the classifier both name a language
\* and the two differ, the call returns English with confidence 0.8 and method
\* "english-portuguese-resolution" if the two languages are English and
\* Portuguese and the text contains a strong English indicator, and returns
\* the language of the external service in every other case.
C24_OverrideOnlyForEnglishPortuguese ==
  (Done /\ ExternalSucceeded /\ Truthy(Heuristic.language)
        /\ apiResult.value # Heuristic.language) =>
     IF /\ {apiResult.value, Heuristic.language} = {English, Portuguese}
        /\ HasStrongEnglish(trimmedText)
     THEN result = Resolution(English, Rat(8, 10), "english-portuguese-resolution")
     ELSE result.language = apiResult.value

\* C24 witness: the external service answered Portuguese for a text with a
\* strong English indicator that the classifier takes for English, and the
\* call returned English by the override.
C24_Witness ==
  /\ Done
  /\ ExternalSucceeded
  /\ apiResult.value = Portuguese
  /\ Heuristic.language = English
  /\ HasStrongEnglish(trimmedText)
  /\ result.method = "english-portuguese-resolution"

\* C24 (the other cases): English and Portuguese disagree on a text without a
\* strong English indicator, and the call returned Portuguese.
C24_NoIndicatorReached ==
  /\ Done
  /\ ExternalSucceeded
  /\ apiResult.value = Portuguese
  /\ Heuristic.language = English
  /\ ~HasStrongEnglish(trimmedText)
  /\ result.language = Portuguese

\* C25: in the English pattern set a match of the idiom pattern (the ninth
\* pattern) adds strictly more to the score than a match of a function-word
\* pattern (the first and the eleventh), which adds strictly more than a match
\* of an ending pattern (the fifth to the eighth: -ing, -ed, -ly, -tion).
\* Stated of every classified text: of the patterns that match it, and of the
\* idiom pattern against the function-word patterns that match it.
C25_WeightOrdering ==
  Classified =>
    LET c == Chars(Trim(ToLowerCase(trimmedText)))
        matched == {i \in DOMAIN englishPatterns : MatchCount(c, englishPatterns[i]) > 0}
    IN /\ \A f \in matched \cap {1, 11} : englishWeights[9] > englishWeights[f]
       /\ \A f \in matched \cap {1, 11} :
            \A e \in matched \cap 5..8 : englishWeights[f] > englishWeights[e]

\* C26: the penalties for short texts come after every boost and clamp: the
\* confidence of a classified text is at most 0.7 when its trimmed length is
\* below 20 and at most 0.35 when it is below 10, and it is never above the
\* confidence the text had before the penalties.
C26_PenaltiesComeLast ==
  (Classified /\ Truthy(Heuristic.language)) =>
     /\ StrLength(trimmedText) < 20 => RLe(Heuristic.confidence, Rat(7, 10))
     /\ StrLength(trimmedText) < 10 => RLe(Heuristic.confidence, Rat(35, 100))
     /\ RLe(Heuristic.confidence,
            BoostedConfidence(ScoresOf(trimmedText), StrLength(trimmedText)))

\* C26 witness: a text of 10 to 19 characters whose confidence was 1 after the
\* boosts is classified with the confidence 0.7.
C26_Witness ==
  /\ Classified
  /\ StrLength(trimmedText) \in 10..19
  /\ BoostedConfidence(ScoresOf(trimmedText), StrLength(trimmedText)) = ROne
  /\ Heuristic.language \in Languages
  /\ Heuristic.confidence = Rat(7, 10)

\* C26 (the shortest texts): a text of fewer than 10 characters whose
\* confidence was 1 after the boosts is classified with the confidence 0.35.
C26_BelowTenReached ==
  /\ Classified
  /\ StrLength(trimmedText) < 10
  /\ BoostedConfidence(ScoresOf(trimmedText), StrLength(trimmedText)) = ROne
  /\ Heuristic.confidence = Rat(35, 100)

\* C27: every change of the field clears the pending debounce timer: at most
\* one timer is pending at any time, and a pending timer is the one set for
\* the current value of the field, so that no detection starts for a value
\* that was replaced before its timer fired.
C27_OneTimerForTheCurrentInput ==
  /\ Cardinality(timers) <= 1
  /\ \A t \in timers : t.id = timeoutId /\ t.idiomInput = idiomInput

\* C27 witness: the field has changed at least twice, a detection started by
\* an earlier timer is awaiting the resolver, and the timer of a newer value
\* is pending.
C27_Witness ==
  /\ keystrokes >= 2
  /\ Len(detections) >= 1
  /\ \E t \in timers : t.idiomInput # detections[1].idiomInput

---------------------------------------------------------------------------
\* The application: handleSubmit of App.tsx and of its other version, the
\* delayed transition timer and the translation request.

\* The calls of handleSubmit explored.
MaxSubmits == 2

\* The two versions of the component.
Variants == {"App.tsx", "part_008"}

\* The values typed into the field: nothing, an idiom, the same idiom in
\* another case with a trailing blank, and another idiom.
SubmitInputs ==
  {StringValue(0, <<>>, 0), StringValue(0, <<"the">>, 0), StringValue(0, <<"The">>, 1),
   StringValue(0, <<"bird">>, 0)}

\* The languages offered as targets.
SubmitTargets == {French, German}

\* App.tsx:55, 59, 63, 76, 110: the messages.
EnterIdiom == "Please enter an idiom to translate."
SelectSource == "Please select a source language."
SelectTarget == "Please select at least one target language."
AlreadyWoven == "These idioms have already been woven!"
Sorry == "Sorry, we couldn't find an equivalent for that idiom."

\* The comparison of App.tsx:69-73 without toLowerCase.
IsDuplicateCaseSensitive(last, idiom, source, targets) ==
  /\ last.present
  /\ Trim(last.idiom) = Trim(idiom)
  /\ last.sourceLanguage = source
  /\ Cardinality(last.targetLanguages) = Cardinality(targets)
  /\ \A lang \in last.targetLanguages : lang \in targets

\* App.tsx:68-73, part_008:58-63: lastSubmittedValues is set and isDuplicate.
IsDuplicate(last, idiom, source, targets) ==
  /\ last.present
  /\ ToLowerCase(Trim(last.idiom)) = ToLowerCase(Trim(idiom))
  /\ last.sourceLanguage = source
  /\ Cardinality(last.targetLanguages) = Cardinality(targets)
  /\ \A lang \in last.targetLanguages : lang \in targets

\* App.tsx:90-94, part_008:85-89: the values stored as last submitted.
Stored(sub) == Submission(Trim(sub.idiom), sub.sourceLanguage, sub.targetLanguages)

\* IdiomInputForm.tsx:164-165: setIdiomInput of handleIdiomChange.
SetIdiomInput(value) ==
  /\ value # idiomInput
  /\ idiomInput' = value
  /\ UNCHANGED <<callVars, calls, formLocals, sourceLanguage, submitVars>>

\* IdiomInputForm.tsx:205-206: setSourceLanguage of handleSourceLanguageSelect.
SetSourceLanguage(lang) ==
  /\ lang # sourceLanguage
  /\ sourceLanguage' = lang
  /\ UNCHANGED <<callVars, calls, formLocals, idiomInput, submitVars>>

\* IdiomInputForm.tsx:214-219: handleTargetLanguageToggle.
ToggleTargetLanguage(lang) ==
  /\ targetLanguages' = IF lang \in targetLanguages
                          THEN targetLanguages \ {lang}
                          ELSE targetLanguages \cup {lang}
  /\ UNCHANGED <<callVars, calls, formVars, variant, results, isLoading,
                 isTransitioning, error, lastSubmittedValues, duplicateNotification,
                 loadingTimers, translations, requestsSent, submits, succeeded>>

\* IdiomInputForm.tsx:173-187, 561-563: the form can be submitted with the
\* button while it is enabled, or with the Enter key once the idiom, the
\* source and a target are given.
CanSubmit(byEnter) ==
  IF byEnter
    THEN /\ StrLength(Trim(idiomInput)) > 0
         /\ sourceLanguage # JsNull
         /\ targetLanguages # {}
    ELSE ~isLoading

\* App.tsx:52-106, part_008:42-82: handleSubmit up to its await.
HandleSubmit(byEnter) ==
  /\ submits < MaxSubmits
  /\ CanSubmit(byEnter)
  /\ submits' = submits + 1
  /\ UNCHANGED <<callVars, calls, formVars, variant, targetLanguages, succeeded>>
  /\ IF StrLength(Trim(idiomInput)) = 0 \/ sourceLanguage = JsNull \/ targetLanguages = {}
     THEN /\ error' = (IF StrLength(Trim(idiomInput)) = 0 THEN EnterIdiom
                       ELSE IF sourceLanguage = JsNull THEN SelectSource
                       ELSE SelectTarget)
          /\ UNCHANGED <<results, isLoading, isTransitioning, lastSubmittedValues,
                         duplicateNotification, loadingTimers, translations,
                         requestsSent>>
     ELSE IF IsDuplicate(lastSubmittedValues, idiomInput, sourceLanguage, targetLanguages)
     THEN /\ duplicateNotification' = AlreadyWoven
          /\ error' = JsNull
          /\ UNCHANGED <<results, isLoading, isTransitioning, lastSubmittedValues,
                         loadingTimers, translations, requestsSent>>
     ELSE LET sub == Submission(idiomInput, sourceLanguage, targetLanguages) IN
          /\ error' = JsNull
          /\ isTransitioning' = TRUE
          /\ loadingTimers' = loadingTimers + 1
          /\ translations' = Append(translations, sub)
          /\ requestsSent' = requestsSent + 1
          /\ lastSubmittedValues' = (IF variant = "App.tsx" THEN Stored(sub)
                                     ELSE lastSubmittedValues)
          /\ results' = (IF variant = "App.tsx" THEN NoSubmission ELSE results)
          /\ UNCHANGED <<isLoading, duplicateNotification>>

\* App.tsx:100-103, part_008:76-80: the callback of the transition timer.
LoadingTimerFires ==
  /\ loadingTimers > 0
  /\ loadingTimers' = loadingTimers - 1
  /\ isLoading' = TRUE
  /\ isTransitioning' = FALSE
  /\ results' = (IF variant = "part_008" THEN NoSubmission ELSE results)
  /\ UNCHANGED <<callVars, calls, formVars, variant, targetLanguages, error,
                 lastSubmittedValues, duplicateNotification, translations,
                 requestsSent, submits, succeeded>>

\* App.tsx:106-107, 111-112, part_008:82-89, 93-94: translateIdiom resolves.
TranslationSucceeds(i) ==
  /\ i \in DOMAIN translations
  /\ LET sub == translations[i] IN
     /\ results' = sub
     /\ lastSubmittedValues' = (IF variant = "part_008" THEN Stored(sub)
                                ELSE lastSubmittedValues)
     /\ succeeded' = succeeded \cup {Stored(sub)}
  /\ isLoading' = FALSE
  /\ translations' = RemoveAt(translations, i)
  /\ UNCHANGED <<callVars, calls, formVars, variant, targetLanguages, isTransitioning,
                 error, duplicateNotification, loadingTimers, requestsSent, submits>>

\* App.tsx:108-112, part_008:90-94: translateIdiom rejects.
TranslationFails(i) ==
  /\ i \in DOMAIN translations
  /\ error' = Sorry
  /\ isLoading' = FALSE
  /\ translations' = RemoveAt(translations, i)
  /\ UNCHANGED <<callVars, calls, formVars, variant, targetLanguages, results,
                 isTransitioning, lastSubmittedValues, duplicateNotification,
                 loadingTimers, requestsSent, submits, succeeded>>

\* App.tsx:35-37, 47-49, part_008:29-31, 37-39: a timer of the notification
\* ends in setDuplicateNotification(null).
NotificationTimerFires ==
  /\ duplicateNotification # JsNull
  /\ duplicateNotification' = JsNull
  /\ UNCHANGED <<callVars, calls, formVars, variant, targetLanguages, results,
                 isLoading, isTransitioning, error, lastSubmittedValues,
                 loadingTimers, translations, requestsSent, submits, succeeded>>

SubmitInit ==
  /\ isMobile = FALSE
  /\ text = StringValue(0, <<>>, 0)
  /\ pc = "start"
  /\ trimmedText = StringValue(0, <<>>, 0)
  /\ heuristicResult = Classification(JsUndefined, RZero)
  /\ timer = "unset"
  /\ requests = 0
  /\ apiResult = Resolved(JsUndefined)
  /\ external = "not-called"
  /\ outcome = "pending"
  /\ result = NoResult
  /\ calls = <<>>
  /\ FormUnmounted
  /\ AppInitial(Variants)

SubmitNext ==
  \/ \E value \in SubmitInputs : SetIdiomInput(value)
  \/ \E lang \in {JsNull, English} : SetSourceLanguage(lang)
  \/ \E lang \in SubmitTargets : ToggleTargetLanguage(lang)
  \/ \E byEnter \in BOOLEAN : HandleSubmit(byEnter)
  \/ LoadingTimerFires
  \/ \E i \in 1..MaxSubmits : TranslationSucceeds(i)
  \/ \E i \in 1..MaxSubmits : TranslationFails(i)
  \/ NotificationTimerFires

SubmitSpec == SubmitInit /\ [][SubmitNext]_vars

\* C28: a submission whose idiom (trimmed, case ignored), source language and
\* set of target languages equal those of the last recorded submission sends
\* no translation request and leaves results, isLoading and
\* lastSubmittedValues as they were; it shows the duplicate notification and
\* clears the error.
C28_DuplicateOnlyNotifies ==
  [][(/\ submits' = submits + 1
      /\ lastSubmittedValues.present
      /\ Trim(ToLowerCase(lastSubmittedValues.idiom)) = Trim(ToLowerCase(idiomInput))
      /\ lastSubmittedValues.sourceLanguage = sourceLanguage
      /\ lastSubmittedValues.targetLanguages = targetLanguages)
     => (/\ requestsSent' = requestsSent
         /\ translations' = translations
         /\ results' = results
         /\ isLoading' = isLoading
         /\ lastSubmittedValues' = lastSubmittedValues
         /\ duplicateNotification' = AlreadyWoven
         /\ error' = JsNull)]_vars

\* C28 witness: after a translation has succeeded, the same idiom typed in
\* another case and with a trailing blank has been submitted: the notification
\* is shown, the results are still there and one request has been sent.
C28_Witness ==
  /\ submits = 2
  /\ requestsSent = 1
  /\ duplicateNotification = AlreadyWoven
  /\ results.present
  /\ lastSubmittedValues.present
  /\ Trim(idiomInput) # lastSubmittedValues.idiom

\* C29: handleSubmit records a submission as the last submitted one only after
\* its translation request has succeeded, so that a submission whose
\* translation failed can be sent again.
C29_RecordedOnlyAfterSuccess ==
  lastSubmittedValues.present => lastSubmittedValues \in succeeded

\* C30: once the translation requests have settled and the transition timers
\* have fired, isLoading is false, whichever came first.
C30_LoadingEndsWhenSettled ==
  (requestsSent > 0 /\ Len(translations) = 0 /\ loadingTimers = 0) => ~isLoading

=============================================================================
